---- MODULE Spec2Model ----
(***************************************************************************)
(* Flip game provider: round engine (flipEngine.js), seed chain (seeds.js), *)
(* bet coordinator and round scheduler (betService.js, roundService.js),   *)
(* settlement callbacks (callbackService.js).                              *)
(*                                                                         *)
(* Node.js runs every handler to its first await without interruption, so  *)
(* one action is one run-to-completion segment of a handler: a timer       *)
(* callback, the synchronous head of placeBet, or the continuation that    *)
(* runs when a platform call completes.                                    *)
(***************************************************************************)
EXTENDS Integers, Sequences, FiniteSets, TLC

\* ------------------------------------------------------------------ bounds
MaxRounds == 2        \* rounds generated in one behaviour
MaxCalls == 2         \* placeBet invocations in one behaviour
ChainLength == 2      \* SeedManager.chainLength, scaled down from 10000
NumSeedRoots == 1     \* distinct random chain roots the entropy source yields
MaxStarts == 2        \* calls of RoundService.start where restarts are allowed
MaxRestartCalls == 1  \* placeBet invocations where restarts are allowed
MaxSeedSteps == 8     \* SeedManager calls made on the manager alone
MaxEngineRounds == 52 \* rounds generated on the engine alone
MaxEngineBetRounds == 2  \* rounds of the engine alone that take bets
MaxSessions == 2      \* sessions created in one behaviour
MaxSockets == 2       \* sockets that connect in one behaviour
MaxLookups == 3       \* getSession calls by the namespaces in one behaviour
MaxTicks == 2         \* advances of the clock between the session callbacks
MaxSweeps == 1        \* runs of the session cleanup interval
MaxRequests == 3      \* CallbackService calls made on the service alone

\* ------------------------------------------------------- program constants
MIN_BET == 1
PAYOUT_MULTIPLIER_X100 == 195
EDGE_MULTIPLIER_X100 == 1000
PROBABILITY_HEADS_X100 == 4865
PROBABILITY_TAILS_X100 == 4865
HISTORY_LIMIT == 50
RETRY_ATTEMPTS == 3
RETRY_DELAY_MS == 1000
TIMEOUT_MS == 10000
ROUND_DELAY_MS == 2000
BETTING_PHASE_MS == 60000
RESULT_REVEAL_MS == 5000

Players == {"p1", "p2"}
Choices == {"HEADS", "TAILS", "EDGE"}
\* The amount of a bet message: a number of cents, NaN, or a value that is
\* not of type number; plusMaxBet adds MAX_BET to the cents, so OverMaxBet
\* is MAX_BET + 0.01.
AmountNumber(cents) == [type |-> "number", cents |-> cents, plusMaxBet |-> FALSE]
AmountNaN == [type |-> "NaN", cents |-> 0, plusMaxBet |-> FALSE]
AmountString == [type |-> "string", cents |-> 0, plusMaxBet |-> FALSE]
OverMaxBet == [type |-> "number", cents |-> 1, plusMaxBet |-> TRUE]
\* The bet messages tried: three acceptable ones (3.80 on HEADS by p1's
\* session, 10.00 on EDGE and on HEADS by p2's) and one per validation
\* failure.
BetInputs ==
  {[sessionId |-> "s1", amount |-> AmountNumber(380), choice |-> "HEADS"],
   [sessionId |-> "s2", amount |-> AmountNumber(1000), choice |-> "EDGE"],
   [sessionId |-> "s2", amount |-> AmountNumber(1000), choice |-> "HEADS"],
   [sessionId |-> "sX", amount |-> AmountNumber(380), choice |-> "HEADS"],
   [sessionId |-> "s1", amount |-> AmountNumber(50), choice |-> "HEADS"],
   [sessionId |-> "s2", amount |-> AmountNumber(1000), choice |-> "SIDE"],
   [sessionId |-> "s1", amount |-> AmountNaN, choice |-> "HEADS"],
   [sessionId |-> "s2", amount |-> AmountString, choice |-> "EDGE"],
   [sessionId |-> "s1", amount |-> OverMaxBet, choice |-> "HEADS"]}
\* The amounts, in cents, of the bets handed to the engine directly.
EngineAmounts == {380}
SessionIds == {"s1", "s2"}
\* The times, in ms, that pass between two callbacks where restarts are allowed.
ElapseSteps == {30000}
ClientSeeds == {0}
SeedRoots == 0..(NumSeedRoots - 1)
CallIds == 1..MaxCalls
SocketIds == 1..MaxSockets
\* The session ids a client may present: those issued and one never issued.
PresentedSessionIds == 0..MaxSessions
SocketNamespaces == {"game", "controls"}
\* The 'bet' messages sent on the sockets.
SocketBets ==
  {[amount |-> AmountNumber(380), choice |-> "HEADS"],
   [amount |-> AmountNaN, choice |-> "HEADS"]}
TimerKinds == {"reveal", "finish", "start"}
Responses == {"OK", "ERROR", "FAIL"}
\* The answers the response format {status, transactionId?, ...} allows beyond
\* those of the mock platform: status ERROR with a transactionId, status OK
\* without one.
PlatformResponses == Responses \cup {"ERROR_TX", "OK_NOTX"}
\* How one fetch of makeRequest ends: a 2xx answer with status OK and a
\* transactionId, a 2xx answer with status ERROR, code and message, the abort
\* at TIMEOUT_MS, or an answer that is not 2xx.
AttemptResponses == {"OK", "ERROR"}
AttemptFailures == {"TIMEOUT", "HTTP_ERROR"}
Operations == {"placeBet", "creditWin", "rollback", "getBalance"}

EXPIRY_MS == 86400000
CLEANUP_INTERVAL_MS == 60000
\* The times that pass between two callbacks on the session service.
SessionClockSteps == {1, EXPIRY_MS}
\* What Date.now() may advance by between the two reads of createSession.
CreateTicks == {0, 1}
ErrSession == "Invalid or expired session"
ErrAmount == "Invalid bet amount"
ErrMinBet == "Minimum bet is 1"
ErrMaxBet == "Maximum bet is 100000000000"
ErrChoice == "Invalid choice. Must be HEADS, TAILS, or EDGE"
ErrDuplicate == "Already placed a bet this round"
ErrNoRound == "No active round"
ErrClosed == "Betting phase has ended"
ErrReveal == "No round in betting phase"
ErrPlatform == "Bet rejected by platform"

\* ------------------------------------------- IEEE-754 double arithmetic
\* JavaScript numbers are binary64.  A natural number is a little-endian
\* sequence of 14-bit limbs; a double is m * 2^e with m < 2^53.
LimbBase == 16384
LimbBits == 14
MantissaBits == 53

RECURSIVE Pow2(_)
Pow2(n) == IF n = 0 THEN 1 ELSE 2 * Pow2(n - 1)

RECURSIVE BigFromInt(_)
BigFromInt(n) == IF n = 0 THEN <<>> ELSE <<n % LimbBase>> \o BigFromInt(n \div LimbBase)

RECURSIVE BigToInt(_)
BigToInt(a) == IF a = <<>> THEN 0 ELSE Head(a) + LimbBase * BigToInt(Tail(a))

RECURSIVE BigNorm(_)
BigNorm(a) == IF a # <<>> /\ a[Len(a)] = 0 THEN BigNorm(SubSeq(a, 1, Len(a) - 1)) ELSE a

RECURSIVE BigMulSmall(_, _, _)
BigMulSmall(a, s, carry) ==
  IF a = <<>> THEN (IF carry = 0 THEN <<>> ELSE <<carry>>)
  ELSE LET t == Head(a) * s + carry
       IN <<t % LimbBase>> \o BigMulSmall(Tail(a), s, t \div LimbBase)

RECURSIVE BigAdd(_, _, _)
BigAdd(a, b, carry) ==
  IF a = <<>> /\ b = <<>> THEN (IF carry = 0 THEN <<>> ELSE <<carry>>)
  ELSE LET x == IF a = <<>> THEN 0 ELSE Head(a)
           y == IF b = <<>> THEN 0 ELSE Head(b)
           t == x + y + carry
       IN <<t % LimbBase>> \o BigAdd(IF a = <<>> THEN a ELSE Tail(a),
                                     IF b = <<>> THEN b ELSE Tail(b), t \div LimbBase)

RECURSIVE BigSub(_, _, _)
BigSub(a, b, borrow) ==
  IF a = <<>> THEN <<>>
  ELSE LET y == IF b = <<>> THEN 0 ELSE Head(b)
           t == Head(a) - y - borrow
       IN <<t % LimbBase>> \o BigSub(Tail(a), IF b = <<>> THEN b ELSE Tail(b),
                                     IF t < 0 THEN 1 ELSE 0)

RECURSIVE BigMul(_, _)
BigMul(a, b) ==
  IF b = <<>> THEN <<>>
  ELSE BigAdd(BigMulSmall(a, Head(b), 0), <<0>> \o BigMul(a, Tail(b)), 0)

RECURSIVE BigCmpAt(_, _, _)
BigCmpAt(a, b, i) ==
  IF i = 0 THEN 0
  ELSE IF a[i] > b[i] THEN 1 ELSE IF a[i] < b[i] THEN -1 ELSE BigCmpAt(a, b, i - 1)

BigCmp(a, b) ==
  LET x == BigNorm(a)
      y == BigNorm(b)
  IN IF Len(x) > Len(y) THEN 1 ELSE IF Len(x) < Len(y) THEN -1 ELSE BigCmpAt(x, y, Len(x))

RECURSIVE BigDivSmallAt(_, _, _, _)
BigDivSmallAt(a, d, i, r) ==
  IF i = 0 THEN [q |-> <<>>, r |-> r]
  ELSE LET t == r * LimbBase + a[i]
           rest == BigDivSmallAt(a, d, i - 1, t % d)
       IN [q |-> Append(rest.q, t \div d), r |-> rest.r]

BigDivSmall(a, d) ==
  LET res == BigDivSmallAt(a, d, Len(a), 0)
  IN [q |-> BigNorm(res.q), r |-> res.r]

RECURSIVE IntBitLen(_)
IntBitLen(n) == IF n = 0 THEN 0 ELSE 1 + IntBitLen(n \div 2)

BigBitLen(a) ==
  LET x == BigNorm(a)
  IN IF x = <<>> THEN 0 ELSE (Len(x) - 1) * LimbBits + IntBitLen(x[Len(x)])

BigShl(a, n) ==
  [i \in 1..(n \div LimbBits) |-> 0] \o BigMulSmall(a, Pow2(n % LimbBits), 0)

BigShr(a, n) ==
  LET k == n \div LimbBits
  IN IF k >= Len(a) THEN <<>>
     ELSE BigDivSmall(SubSeq(a, k + 1, Len(a)), Pow2(n % LimbBits)).q

BigIsOdd(a) == a # <<>> /\ a[1] % 2 = 1

\* Round the exact value x * 2^e to the nearest double, ties to even.
RoundToDouble(x, e) ==
  LET len == BigBitLen(x)
  IN IF len <= MantissaBits
     THEN [m |-> BigNorm(BigShl(x, MantissaBits - len)), e |-> e - (MantissaBits - len)]
     ELSE LET n == len - MantissaBits
              q == BigShr(x, n)
              rem == BigNorm(BigSub(x, BigShl(q, n), 0))
              c == BigCmp(BigShl(rem, 1), BigShl(<<1>>, n))
              up == c > 0 \/ (c = 0 /\ BigIsOdd(q))
              q1 == IF up THEN BigNorm(BigAdd(q, <<1>>, 0)) ELSE q
          IN IF BigBitLen(q1) > MantissaBits
             THEN [m |-> BigShr(q1, 1), e |-> e + n + 1]
             ELSE [m |-> q1, e |-> e + n]

\* The double nearest to n / d: a decimal literal, or the quotient of two
\* exactly representable operands (IEEE division is correctly rounded).
DoubleOfRatio(n, d) ==
  LET res == BigDivSmall(BigShl(BigFromInt(n), 70), d)
      sticky == IF res.r = 0 THEN <<>> ELSE <<1>>
  IN RoundToDouble(BigNorm(BigAdd(BigShl(res.q, 1), sticky, 0)), -71)

DoubleMul(x, y) == RoundToDouble(BigNorm(BigMul(x.m, y.m)), x.e + y.e)

DoubleAdd(x, y) ==
  LET e == IF x.e < y.e THEN x.e ELSE y.e
  IN RoundToDouble(BigNorm(BigAdd(BigShl(x.m, x.e - e), BigShl(y.m, y.e - e), 0)), e)

DoubleLess(x, y) ==
  LET e == IF x.e < y.e THEN x.e ELSE y.e
  IN BigCmp(BigShl(x.m, x.e - e), BigShl(y.m, y.e - e)) < 0

MathFloor(x) ==
  IF x.e >= 0 THEN BigToInt(BigShl(x.m, x.e)) ELSE BigToInt(BigShr(x.m, -(x.e)))

\* ------------------------------------------------------------ util/hmac.js
\* A seed is the chain root hashed depth times; sha256 adds one application.
Seed(root, depth) == [root |-> root, depth |-> depth]
NoSeed == [root |-> -1, depth |-> -1]

sha256(seed) == [root |-> seed.root, depth |-> seed.depth + 1]

\* First byte of HMAC-SHA256(serverSeed, clientSeed:nonce): a fixed function
\* of its three inputs whose values cover both sides of every interval bound.
ByteSamples == <<249, 248, 0, 124, 255, 250, 100, 125>>

hmacFirstByte(serverSeed, clientSeed, nonce) ==
  ByteSamples[((serverSeed.root * 2 + serverSeed.depth * 3 + clientSeed + nonce * 5)
               % Len(ByteSamples)) + 1]

\* ------------------------------------------------------- engine/seeds.js
\* chains counts the calls of initialize: generateRandomHex never gives the
\* same 32 bytes twice, so every chain has a root of its own.
NewSeedManager ==
  [root |-> -1, length |-> 0, currentIndex |-> 0, clientSeed |-> -1,
   initialHash |-> NoSeed, nonce |-> 0, chains |-> 0]

generateRandomHex(sm, root) == root + NumSeedRoots * sm.chains

\* seedChain[i] (0-based) after the reverse(): element 0 is the last hash.
\* NoSeed stands for undefined, the value of an index outside the array.
seedChainAt(sm, i) ==
  IF i >= 0 /\ i < sm.length THEN Seed(sm.root, ChainLength - 1 - i) ELSE NoSeed

SeedManager_initialize(sm, root, clientSeed) ==
  [root |-> generateRandomHex(sm, root), length |-> ChainLength, currentIndex |-> 0,
   clientSeed |-> clientSeed,
   initialHash |-> Seed(generateRandomHex(sm, root), ChainLength - 1),
   nonce |-> 0, chains |-> sm.chains + 1]

getPublicData(sm) ==
  [publicHash |-> sm.initialHash, clientSeed |-> sm.clientSeed, nonce |-> sm.nonce,
   gamesRemaining |-> ChainLength - sm.currentIndex]

\* Returns the manager after a possible regeneration; the seed is
\* seedChainAt(result, result.currentIndex).
getCurrentServerSeed(sm, root, clientSeed) ==
  IF sm.currentIndex >= sm.length THEN SeedManager_initialize(sm, root, clientSeed) ELSE sm

\* advanceToNextSeed without the regeneration on exhaustion.
advanceToNextSeed_noRegenerate(sm, root, clientSeed) ==
  [sm EXCEPT !.currentIndex = @ + 1, !.nonce = @ + 1]

advanceToNextSeed(sm, root, clientSeed) ==
  LET adv == [sm EXCEPT !.currentIndex = @ + 1, !.nonce = @ + 1]
  IN IF adv.currentIndex >= adv.length
     THEN SeedManager_initialize(adv, root, clientSeed)
     ELSE adv

\* -------------------------------------------------- engine/flipEngine.js
NoId == [t |-> -1, nonce |-> -1]
NoTime == -1
NoRollback ==
  [roundId |-> NoId, playerId |-> "none", amount |-> 0, originalTransactionId |-> 0,
   reason |-> "none"]
NoRequestId == [roundId |-> NoId, playerId |-> "none", t |-> -1, ms |-> -1]

NullRound ==
  [id |-> NoId, serverSeed |-> NoSeed, serverSeedHash |-> NoSeed, clientSeed |-> -1,
   nonce |-> -1, result |-> "none", startTime |-> NoTime, endTime |-> NoTime,
   status |-> "null", bets |-> <<>>, winners |-> <<>>, losers |-> <<>>]

\* Map helpers: a JavaScript Map keyed by playerId, in insertion order.
MapHas(m, playerId) == \E i \in 1..Len(m) : m[i].playerId = playerId

MapGet(m, playerId) == m[CHOOSE i \in 1..Len(m) : m[i].playerId = playerId]

MapSet(m, entry) ==
  IF MapHas(m, entry.playerId)
  THEN [i \in 1..Len(m) |-> IF m[i].playerId = entry.playerId THEN entry ELSE m[i]]
  ELSE Append(m, entry)

MapKeys(m) == {m[i].playerId : i \in 1..Len(m)}

\* A scaling by 256 instead of 255.
flipResultOfByte_scale256(firstByte) ==
  LET probHeads == DoubleOfRatio(PROBABILITY_HEADS_X100, 100)
      probTails == DoubleOfRatio(PROBABILITY_TAILS_X100, 100)
      percentage == DoubleMul(DoubleOfRatio(firstByte, 256), DoubleOfRatio(100, 1))
  IN IF DoubleLess(percentage, probHeads) THEN "HEADS"
     ELSE IF DoubleLess(percentage, DoubleAdd(probHeads, probTails)) THEN "TAILS"
     ELSE "EDGE"

\* percentage = (firstByte / 255) * 100, compared against the configured
\* probabilities in the order HEADS, TAILS, EDGE.
flipResultOfByte(firstByte) ==
  LET probHeads == DoubleOfRatio(PROBABILITY_HEADS_X100, 100)
      probTails == DoubleOfRatio(PROBABILITY_TAILS_X100, 100)
      percentage == DoubleMul(DoubleOfRatio(firstByte, 255), DoubleOfRatio(100, 1))
  IN IF DoubleLess(percentage, probHeads) THEN "HEADS"
     ELSE IF DoubleLess(percentage, DoubleAdd(probHeads, probTails)) THEN "TAILS"
     ELSE "EDGE"

\* The outcome for each value of the first byte, computed once.
flipResultTable == [firstByte \in 0..255 |-> flipResultOfByte(firstByte)]

calculateFlipResult(serverSeed, clientSeed, nonce) ==
  flipResultTable[hmacFirstByte(serverSeed, clientSeed, nonce)]

\* Math.floor(bet.amount * multiplier * 100) / 100, in cents.  amount is the
\* double nearest to cents/100; the final division by 100 maps each whole
\* number of cents to a distinct double, so the cent count identifies it.
winAmountOf(amountCents, result) ==
  LET multiplier == IF result = "EDGE"
                    THEN DoubleOfRatio(EDGE_MULTIPLIER_X100, 100)
                    ELSE DoubleOfRatio(PAYOUT_MULTIPLIER_X100, 100)
  IN MathFloor(DoubleMul(DoubleMul(DoubleOfRatio(amountCents, 100), multiplier),
                         DoubleOfRatio(100, 1)))

\* winAmountOf tabulated over the bet amounts that reach a round, so that the
\* arithmetic is done once per amount and result.
TabulatedAmounts == {b.amount.cents : b \in {i \in BetInputs : i.amount.type = "number"}}
                      \cup EngineAmounts

winAmountTable ==
  [amountCents \in TabulatedAmounts |->
     [result \in Choices |-> winAmountOf(amountCents, result)]]

calculateWinAmount(amountCents, result) ==
  IF amountCents \in TabulatedAmounts
  THEN winAmountTable[amountCents][result]
  ELSE winAmountOf(amountCents, result)

\* The comparison inverted.
IsWinningBet_inverted(bet, result) == bet.choice # result

IsWinningBet(bet, result) == bet.choice = result

WinnerEntry(bet, result) ==
  [playerId |-> bet.playerId, betAmount |-> bet.amount,
   winAmount |-> calculateWinAmount(bet.amount, result), choice |-> bet.choice]

LoserEntry(bet) ==
  [playerId |-> bet.playerId, betAmount |-> bet.amount, choice |-> bet.choice]

RECURSIVE CollectWinners(_, _)
CollectWinners(bets, result) ==
  IF bets = <<>> THEN <<>>
  ELSE IF IsWinningBet(Head(bets), result)
       THEN <<WinnerEntry(Head(bets), result)>> \o CollectWinners(Tail(bets), result)
       ELSE CollectWinners(Tail(bets), result)

RECURSIVE CollectLosers(_, _)
CollectLosers(bets, result) ==
  IF bets = <<>> THEN <<>>
  ELSE IF IsWinningBet(Head(bets), result)
       THEN CollectLosers(Tail(bets), result)
       ELSE <<LoserEntry(Head(bets))>> \o CollectLosers(Tail(bets), result)

calculateResults(round) ==
  IF round.status = "null" THEN round
  ELSE [round EXCEPT !.winners = CollectWinners(round.bets, round.result),
                     !.losers = CollectLosers(round.bets, round.result)]

\* generateRound: the seed manager after getCurrentServerSeed and the round.
generateRound_sm(sm, root, clientSeed) == getCurrentServerSeed(sm, root, clientSeed)

generateRound(sm, time, root, clientSeed) ==
  LET sm1 == generateRound_sm(sm, root, clientSeed)
      serverSeed == seedChainAt(sm1, sm1.currentIndex)
  IN [id |-> [t |-> time, nonce |-> sm1.nonce],
      serverSeed |-> serverSeed,
      serverSeedHash |-> sha256(serverSeed),
      clientSeed |-> sm1.clientSeed,
      nonce |-> sm1.nonce,
      result |-> calculateFlipResult(serverSeed, sm1.clientSeed, sm1.nonce),
      startTime |-> NoTime, endTime |-> NoTime,
      status |-> "pending", bets |-> <<>>, winners |-> <<>>, losers |-> <<>>]

startBettingPhase(round) == [round EXCEPT !.status = "betting"]

\* A guard that only asks for a round.
startReveal_ok_anyRound(round) == round.status # "null"

startReveal_ok(round) == round.status = "betting"

\* startReveal: the error it throws, "none" when the reveal starts.
startReveal_error(round) ==
  IF round.status = "null" \/ round.status # "betting" THEN ErrReveal ELSE "none"

startReveal(round, time) ==
  calculateResults([round EXCEPT !.status = "revealing", !.startTime = time])

\* The payloads of the three engine events, and emit: every registered
\* listener broadcasts the payload once.
\* The seed itself published in place of its hash.
BettingPhaseEvent_seedAsHash(round) ==
  [event |-> "betting_phase", roundId |-> round.id,
   serverSeedHash |-> round.serverSeed, clientSeed |-> round.clientSeed,
   nonce |-> round.nonce, result |-> "none", serverSeed |-> NoSeed,
   startTime |-> NoTime]

BettingPhaseEvent(round) ==
  [event |-> "betting_phase", roundId |-> round.id,
   serverSeedHash |-> round.serverSeedHash, clientSeed |-> round.clientSeed,
   nonce |-> round.nonce, result |-> "none", serverSeed |-> NoSeed,
   startTime |-> NoTime]

RoundRevealEvent(round) ==
  [event |-> "round_reveal", roundId |-> round.id,
   serverSeedHash |-> round.serverSeedHash, clientSeed |-> -1,
   nonce |-> -1, result |-> round.result, serverSeed |-> NoSeed,
   startTime |-> round.startTime]

\* The payload built with the nonce of the round after.
verificationData_nextNonce(round) ==
  [event |-> "round_finished", roundId |-> round.id,
   serverSeedHash |-> round.serverSeedHash, clientSeed |-> round.clientSeed,
   nonce |-> round.nonce + 1, result |-> round.result, serverSeed |-> round.serverSeed,
   startTime |-> NoTime]

verificationData(round) ==
  [event |-> "round_finished", roundId |-> round.id,
   serverSeedHash |-> round.serverSeedHash, clientSeed |-> round.clientSeed,
   nonce |-> round.nonce, result |-> round.result, serverSeed |-> round.serverSeed,
   startTime |-> NoTime]

\* RoundService.broadcast sends the payload to the namespaces in this order.
\* The controls namespace left out.
Namespaces_gameOnly == <<"game">>

Namespaces == <<"game", "controls">>

Delivered(payload, ns) ==
  [event |-> payload.event, roundId |-> payload.roundId,
   serverSeedHash |-> payload.serverSeedHash, clientSeed |-> payload.clientSeed,
   nonce |-> payload.nonce, result |-> payload.result,
   serverSeed |-> payload.serverSeed, startTime |-> payload.startTime, ns |-> ns]

\* emit: each of the n listeners calls broadcast once.
emit(log, n, payload) ==
  log \o [k \in 1..(n * Len(Namespaces)) |->
           Delivered(payload, Namespaces[((k - 1) % Len(Namespaces)) + 1])]

\* getCurrentRound: the snapshot, "null" standing for a null result.
getCurrentRound(round) ==
  IF round.status = "null" THEN NullRound
  ELSE [id |-> round.id, status |-> round.status,
        result |-> IF round.status \in {"revealing", "finished"} THEN round.result
                   ELSE "null",
        serverSeedHash |-> round.serverSeedHash, clientSeed |-> round.clientSeed,
        nonce |-> round.nonce, betsCount |-> Len(round.bets),
        startTime |-> round.startTime]

HistoryEntry(round) ==
  [id |-> round.id, result |-> round.result, serverSeed |-> round.serverSeed,
   serverSeedHash |-> round.serverSeedHash, clientSeed |-> round.clientSeed,
   nonce |-> round.nonce, startTime |-> round.startTime, endTime |-> round.endTime,
   winnersCount |-> Len(round.winners), losersCount |-> Len(round.losers)]

\* getHistory(limit): the first limit entries.
getHistory(history, limit) ==
  SubSeq(history, 1, IF limit < Len(history) THEN limit ELSE Len(history))

\* The entry added and nothing removed.
pushHistory_noCap(history, round) == <<HistoryEntry(round)>> \o history

pushHistory(history, round) ==
  LET h == <<HistoryEntry(round)>> \o history
  IN IF Len(h) > HISTORY_LIMIT THEN SubSeq(h, 1, Len(h) - 1) ELSE h

\* addBet without its status test.
addBet_error_anyStatus(round, playerId, choice) ==
  IF round.status = "null" THEN ErrNoRound
  ELSE IF choice \notin Choices THEN ErrChoice
  ELSE IF MapHas(round.bets, playerId) THEN ErrDuplicate
  ELSE "none"

\* addBet without its bets.has test.
addBet_error_noDuplicateTest(round, playerId, choice) ==
  IF round.status = "null" THEN ErrNoRound
  ELSE IF round.status # "betting" THEN ErrClosed
  ELSE IF choice \notin Choices THEN ErrChoice
  ELSE "none"

\* The status tested before the round itself.
addBet_error_statusFirst(round, playerId, choice) ==
  IF round.status # "betting" THEN ErrClosed
  ELSE IF choice \notin Choices THEN ErrChoice
  ELSE IF MapHas(round.bets, playerId) THEN ErrDuplicate
  ELSE "none"

\* addBet: the error it throws, "none" when the bet is accepted.
addBet_error(round, playerId, choice) ==
  IF round.status = "null" THEN ErrNoRound
  ELSE IF round.status # "betting" THEN ErrClosed
  ELSE IF choice \notin Choices THEN ErrChoice
  ELSE IF MapHas(round.bets, playerId) THEN ErrDuplicate
  ELSE "none"

addBet(round, playerId, amount, choice, sessionId, time, call) ==
  [round EXCEPT !.bets = MapSet(@, [playerId |-> playerId, sessionId |-> sessionId,
                                    amount |-> amount, choice |-> choice,
                                    placedAt |-> time, call |-> call])]

getPlayerBet_exists(round, playerId) ==
  round.status # "null" /\ MapHas(round.bets, playerId)

\* ------------------------------------------------------------------ state
VARIABLES
  seedManager,          \* SeedManager fields
  currentRound,         \* FlipEngine.currentRound (NullRound for null)
  roundHistory,         \* FlipEngine.roundHistory, newest first
  isRunning,            \* RoundService.isRunning
  timers,               \* pending setTimeout callbacks: by kind, the times due
  settling,             \* RoundService.finishRound calls awaiting a credit
  starts,               \* calls of RoundService.start so far
  rounds,               \* calls of generateRound so far
  activeBets,           \* BetService.activeBets: playerId -> tracked bet
  pendingTransactions,  \* CallbackService.pendingTransactions, by requestId
  sessions,             \* SessionService.sessions as the bets see it: live or expired
  calls,                \* BetService.placeBet invocations
  now,                  \* Date.now()
  debits,               \* debits the platform acknowledged
  credits,              \* creditWin calls completed, in order
  processed,            \* processRoundResults calls returned: arguments and result
  flipIn, flipOut,      \* argument and value of flipResultOfByte
  events,               \* payloads delivered to the namespaces, in order
  listeners,            \* listeners registered per engine event
  revealErrors,         \* 'Cannot reveal round' lines on console.error
  seedProbe,            \* last SeedManager call made on its own and its value
  engineProbe,          \* last FlipEngine.addBet call made on its own and its outcome
  request,              \* last CallbackService call made on its own, step by step
  directory,            \* SessionService.sessions and playerSessions with their times
  sockets,              \* the sockets of the two namespaces
  sessionProbe          \* last SessionService.getSession call and its value

vars == <<seedManager, currentRound, roundHistory, isRunning, timers, settling,
          starts, rounds, activeBets, pendingTransactions, sessions, calls, now,
          debits, credits, processed, flipIn, flipOut, events, listeners, revealErrors,
          seedProbe, engineProbe, request, directory, sockets, sessionProbe>>

engineVars == <<seedManager, currentRound, roundHistory, rounds>>
schedulerVars == <<isRunning, timers, settling, starts>>
flipVars == <<flipIn, flipOut, seedProbe, engineProbe, request, directory, sockets,
              sessionProbe>>
logVars == <<events, listeners, revealErrors>>

NoProbe == [op |-> "none", seed |-> NoSeed, steps |-> 0]

\* A session id that was never issued, and the value getSession returns for
\* null.
NoSessionId == 0
NoSession ==
  [sessionId |-> NoSessionId, playerId |-> "none", createdAt |-> NoTime,
   expiresAt |-> NoTime, isConnected |-> FALSE, gameSocketId |-> 0,
   controlsSocketId |-> 0]

\* new SessionService(): both maps empty.  created counts the session ids
\* issued, sweeps the runs of the cleanup interval, ticks the advances of the
\* clock.
NewDirectory ==
  [sessions |-> [t \in {} |-> NoSession], playerSessions |-> [p \in {} |-> NoSessionId],
   created |-> 0, sweeps |-> 0, ticks |-> 0]

\* A socket that has not connected.  Socket ids are 1..MaxSockets; 0 is null.
NoSocket ==
  [ns |-> "none", state |-> "none", sessionId |-> NoSessionId, playerId |-> "none",
   emitted |-> "none"]

NoLookup == [n |-> 0, sessionId |-> NoSessionId, session |-> NoSession]

NoResult == [kind |-> "none", success |-> FALSE, code |-> "none", message |-> "none"]

NoRequest ==
  [op |-> "none", pc |-> "idle", attempt |-> 0, outcomes |-> <<>>, waits |-> <<>>,
   delayMs |-> 0, playerId |-> "none", transactionId |-> 0, requestId |-> NoRequestId,
   result |-> NoResult, n |-> 0]

NoAddBet ==
  [op |-> "none", roundId |-> NoId, status |-> "none", playerId |-> "none",
   choice |-> "none", err |-> "none"]

IdleCall ==
  [pc |-> "idle", sessionId |-> "none", playerId |-> "none", amount |-> 0,
   choice |-> "none", roundId |-> NoId, requestId |-> NoRequestId, resp |-> "none",
   txId |-> 0, registered |-> FALSE, regRound |-> NoId, addBetCalled |-> FALSE,
   hadEntry |-> FALSE, addStatus |-> "none", regErr |-> "none",
   rollbacks |-> 0, rollback |-> NoRollback, refundResp |-> "none", err |-> "none", success |-> FALSE]

Init ==
  /\ seedManager = NewSeedManager
  /\ currentRound = NullRound
  /\ roundHistory = <<>>
  /\ isRunning = FALSE
  /\ timers = [k \in TimerKinds |-> <<>>]
  /\ settling = {}
  /\ starts = 0
  /\ rounds = 0
  /\ activeBets = {}
  /\ pendingTransactions = {}
  /\ sessions = [s \in SessionIds |->
                   [playerId |-> IF s = "s1" THEN "p1" ELSE "p2", expired |-> FALSE]]
  /\ calls = [c \in CallIds |-> IdleCall]
  /\ now = 0
  /\ debits = {}
  /\ credits = <<>>
  /\ flipIn = -1
  /\ flipOut = "none"
  /\ events = <<>>
  /\ listeners = 0
  /\ revealErrors = 0
  /\ seedProbe = NoProbe
  /\ engineProbe = NoAddBet
  /\ processed = <<>>
  /\ request = NoRequest
  /\ directory = NewDirectory
  /\ sockets = [k \in SocketIds |-> NoSocket]
  /\ sessionProbe = NoLookup

\* --------------------------------------- services/callbackService.js
\* The three ways a settlement call ends, as the platform of
\* mock-platform/server.js and the transport produce them: OK carries a
\* transactionId, ERROR carries code and message only, FAIL is every attempt
\* of makeRequest throwing.  ERROR_TX and OK_NOTX are the two other
\* combinations of status and transactionId.
ResponseStatus(resp) ==
  IF resp \in {"OK", "OK_NOTX"} THEN "OK"
  ELSE IF resp \in {"ERROR", "ERROR_TX"} THEN "ERROR"
  ELSE "none"

\* response.transactionId !== undefined
ResponseHasTransactionId(resp) == resp \in {"OK", "ERROR_TX"}

\* Every answer taken for an acknowledgement.
placeBet_success_always(resp) == TRUE

placeBet_success(resp) == ResponseHasTransactionId(resp)

creditWin_success(resp) == ResponseHasTransactionId(resp)

\* response.status === 'OK'
rollback_success(resp) == ResponseStatus(resp) = "OK"

\* makeRequest after a failed attempt: whether it waits and tries again.
\* One attempt more than configured.
makeRequest_retries_oneMore(attempt) == attempt <= RETRY_ATTEMPTS

makeRequest_retries(attempt) == attempt < RETRY_ATTEMPTS

makeRequest_delay(attempt) == RETRY_DELAY_MS * attempt

\* What placeBet, creditWin, rollback and getBalance hand to their caller:
\* mr is what makeRequest did, a response returned or an error thrown.
\* The error of makeRequest passed on to the caller.
callbackResult_rethrow(op, mr) ==
  IF mr.kind = "error"
  THEN [kind |-> "throw", success |-> FALSE, code |-> "none", message |-> mr.message]
  ELSE IF \/ op = "placeBet" /\ placeBet_success(mr.resp)
          \/ op = "creditWin" /\ creditWin_success(mr.resp)
          \/ op = "rollback" /\ rollback_success(mr.resp)
          \/ op = "getBalance"
  THEN [kind |-> "return", success |-> TRUE, code |-> "none", message |-> "none"]
  ELSE [kind |-> "return", success |-> FALSE, code |-> "PLATFORM_CODE",
        message |-> "platform message"]

callbackResult(op, mr) ==
  IF mr.kind = "error"
  THEN [kind |-> "return", success |-> FALSE, code |-> "CALLBACK_FAILED",
        message |-> mr.message]
  ELSE IF \/ op = "placeBet" /\ placeBet_success(mr.resp)
          \/ op = "creditWin" /\ creditWin_success(mr.resp)
          \/ op = "rollback" /\ rollback_success(mr.resp)
          \/ op = "getBalance"
  THEN [kind |-> "return", success |-> TRUE, code |-> "none", message |-> "none"]
  ELSE [kind |-> "return", success |-> FALSE, code |-> "PLATFORM_CODE",
        message |-> "platform message"]

\* `BET-${roundId}-${playerId}-${Date.now()}`.  ms tells apart the
\* milliseconds between two timer callbacks.
BetRequestId(roundId, playerId, time, ms) ==
  [roundId |-> roundId, playerId |-> playerId, t |-> time, ms |-> ms]

\* The transaction id of the platform's answer to call c's debit: the
\* platform numbers its transactions, one per acknowledged request.
PlatformTransactionId(c) == c

\* pendingTransactions is a Map keyed by requestId.  Its iteration order is
\* read only by clearPendingTransaction, which deletes the first entry with
\* the given transaction id; the platform's transaction ids are unique, so
\* the entries are kept as a set.
setPendingTransaction(pt, entry) ==
  {e \in pt : e.requestId # entry.requestId} \cup {entry}

clearPendingTransaction(pt, transactionId) ==
  IF \E e \in pt : e.transactionId = transactionId
  THEN pt \ {CHOOSE e \in pt : e.transactionId = transactionId}
  ELSE pt

\* ------------------------------------ services/sessionService.js, in full
\* The directory with its times: dir.sessions maps a session id to its
\* session, dir.playerSessions a player to a session id.  The cached balance,
\* currency, token and callbackBaseUrl of a session are not kept.
\* A session expired from its expiresAt on.
SessionService_expired_atExpiry(session, time) == time >= session.expiresAt

\* Date.now() > session.expiresAt
SessionService_expired(session, time) == time > session.expiresAt

SessionService_destroySession(dir, sessionId) ==
  IF sessionId \in DOMAIN dir.sessions
  THEN [dir EXCEPT
         !.playerSessions = [p \in DOMAIN @ \ {dir.sessions[sessionId].playerId} |-> @[p]],
         !.sessions = [t \in DOMAIN @ \ {sessionId} |-> @[t]]]
  ELSE dir

\* getSession at the given time: the directory it leaves and the session it
\* returns, NoSession for null.
SessionService_getSession(dir, sessionId, time) ==
  IF sessionId \notin DOMAIN dir.sessions
  THEN [dir |-> dir, session |-> NoSession]
  ELSE IF SessionService_expired(dir.sessions[sessionId], time)
  THEN [dir |-> SessionService_destroySession(dir, sessionId), session |-> NoSession]
  ELSE [dir |-> dir, session |-> dir.sessions[sessionId]]

\* createSession with all its fields present: firstRead and secondRead are
\* the values of its two Date.now() calls, the new id is one never issued
\* (crypto.randomUUID).
\* The player's prior session left in the session map.
SessionService_createSession_keepPrior(dir, playerId, firstRead, secondRead) ==
  LET sessionId == dir.created + 1
      session == [sessionId |-> sessionId, playerId |-> playerId,
                  createdAt |-> firstRead, expiresAt |-> secondRead + EXPIRY_MS,
                  isConnected |-> FALSE, gameSocketId |-> 0, controlsSocketId |-> 0]
  IN [dir EXCEPT
       !.sessions = [t \in DOMAIN @ \cup {sessionId} |->
                       IF t = sessionId THEN session ELSE @[t]],
       !.playerSessions = [p \in DOMAIN @ \cup {playerId} |->
                             IF p = playerId THEN sessionId ELSE @[p]],
       !.created = sessionId]

SessionService_createSession(dir, playerId, firstRead, secondRead) ==
  LET existingSessionId == IF playerId \in DOMAIN dir.playerSessions
                           THEN dir.playerSessions[playerId]
                           ELSE NoSessionId
      sessionId == dir.created + 1
      session == [sessionId |-> sessionId, playerId |-> playerId,
                  createdAt |-> firstRead, expiresAt |-> secondRead + EXPIRY_MS,
                  isConnected |-> FALSE, gameSocketId |-> 0, controlsSocketId |-> 0]
  IN [dir EXCEPT
       !.sessions = [t \in (DOMAIN @ \ {existingSessionId}) \cup {sessionId} |->
                       IF t = sessionId THEN session ELSE @[t]],
       !.playerSessions = [p \in DOMAIN @ \cup {playerId} |->
                             IF p = playerId THEN sessionId ELSE @[p]],
       !.created = sessionId]

SessionService_cleanupExpiredSessions(dir, time) ==
  LET expired == {t \in DOMAIN dir.sessions : SessionService_expired(dir.sessions[t], time)}
      players == {dir.sessions[t].playerId : t \in expired}
  IN [dir EXCEPT
       !.playerSessions = [p \in DOMAIN @ \ players |-> @[p]],
       !.sessions = [t \in DOMAIN @ \ expired |-> @[t]]]

\* setGameSocket and setControlsSocket.
SessionService_setSocket(dir, sessionId, socketType, socketId) ==
  IF sessionId \notin DOMAIN dir.sessions THEN dir
  ELSE IF socketType = "game"
  THEN [dir EXCEPT !.sessions[sessionId].gameSocketId = socketId,
                   !.sessions[sessionId].isConnected = TRUE]
  ELSE [dir EXCEPT !.sessions[sessionId].controlsSocketId = socketId,
                   !.sessions[sessionId].isConnected = TRUE]

SessionService_clearSocket(dir, sessionId, socketType) ==
  IF sessionId \notin DOMAIN dir.sessions THEN dir
  ELSE LET session == dir.sessions[sessionId]
           cleared == IF socketType = "game"
                      THEN [session EXCEPT !.gameSocketId = 0]
                      ELSE [session EXCEPT !.controlsSocketId = 0]
       IN [dir EXCEPT !.sessions[sessionId] =
            IF cleared.gameSocketId = 0 /\ cleared.controlsSocketId = 0
            THEN [cleared EXCEPT !.isConnected = FALSE]
            ELSE cleared]

\* ------------------------------------------- services/betService.js
\* activeBets is keyed by playerId; the order of its entries is never read.
ActiveHas(ab, playerId) == \E e \in ab : e.playerId = playerId

ActiveGet(ab, playerId) == CHOOSE e \in ab : e.playerId = playerId

ActiveDelete(ab, playerId) == {e \in ab : e.playerId # playerId}

ActiveSet(ab, entry) == ActiveDelete(ab, entry.playerId) \cup {entry}

\* Math.round(amount * 100) / 100, in cents.
roundedAmount(amountCents) ==
  MathFloor(DoubleAdd(DoubleMul(DoubleOfRatio(amountCents, 100), DoubleOfRatio(100, 1)),
                      DoubleOfRatio(1, 2)))

MAX_BET == BigMul(BigFromInt(100000), BigFromInt(1000000))

\* The amount of a bet message in cents, as a natural number of any size.
AmountCents(amount) ==
  BigAdd(BigFromInt(amount.cents),
         IF amount.plusMaxBet THEN BigMulSmall(MAX_BET, 100, 0) ELSE <<>>, 0)

\* sessionService.getSession: whether it returns a session, and the session
\* map it leaves (an expired session is destroyed by the lookup).
\* session.expired stands for Date.now() > session.expiresAt.
getSession_found(ss, sessionId) ==
  sessionId \in DOMAIN ss /\ ~ss[sessionId].expired

destroySession(ss, sessionId) == [t \in DOMAIN ss \ {sessionId} |-> ss[t]]

getSession_sessions(ss, sessionId) ==
  IF sessionId \in DOMAIN ss /\ ss[sessionId].expired
  THEN destroySession(ss, sessionId)
  ELSE ss

\* cleanupExpiredSessions: the session map the sweep leaves.
\* Every session destroyed, expired or not.
cleanupExpiredSessions_all(ss) == [t \in {} |-> ss[t]]

cleanupExpiredSessions(ss) == [t \in {u \in DOMAIN ss : ~ss[u].expired} |-> ss[t]]

\* placeBet without its getPlayerBet test.
placeBet_validation_noDuplicateTest(sessionId, amount, choice) ==
  IF ~getSession_found(sessions, sessionId) THEN ErrSession
  ELSE IF amount.type # "number" THEN ErrAmount
  ELSE IF BigCmp(AmountCents(amount), BigFromInt(MIN_BET * 100)) < 0 THEN ErrMinBet
  ELSE IF BigCmp(AmountCents(amount), BigMulSmall(MAX_BET, 100, 0)) > 0 THEN ErrMaxBet
  ELSE IF choice \notin Choices THEN ErrChoice
  ELSE IF currentRound.status = "null" THEN ErrNoRound
  ELSE IF currentRound.status # "betting" THEN ErrClosed
  ELSE "none"

\* The error placeBet throws after validateSession returned playerId's
\* session, "none" when it goes on to call the platform.
placeBet_checks(playerId, amount, choice) ==
  IF amount.type # "number" THEN ErrAmount
  ELSE IF BigCmp(AmountCents(amount), BigFromInt(MIN_BET * 100)) < 0 THEN ErrMinBet
  ELSE IF BigCmp(AmountCents(amount), BigMulSmall(MAX_BET, 100, 0)) > 0 THEN ErrMaxBet
  ELSE IF choice \notin Choices THEN ErrChoice
  ELSE IF getPlayerBet_exists(currentRound, playerId) THEN ErrDuplicate
  ELSE IF currentRound.status = "null" THEN ErrNoRound
  ELSE IF currentRound.status # "betting" THEN ErrClosed
  ELSE "none"

\* The error the synchronous head of placeBet throws, "none" when it goes on
\* to call the platform.
placeBet_validation(sessionId, amount, choice) ==
  IF ~getSession_found(sessions, sessionId) THEN ErrSession
  ELSE placeBet_checks(sessions[sessionId].playerId, amount, choice)

\* The rollback naming the transaction of the bet the player has in play.
RollbackRequest_activeBetTransaction(call) ==
  [roundId |-> call.roundId, playerId |-> call.playerId,
   amount |-> call.amount,
   originalTransactionId |-> IF ActiveHas(activeBets, call.playerId)
                             THEN ActiveGet(activeBets, call.playerId).transactionId
                             ELSE call.txId,
   reason |-> "REGISTRATION_FAILED"]

\* The rollback sent without the debit's transaction id.
RollbackRequest_noTransactionId(call) ==
  [roundId |-> call.roundId, playerId |-> call.playerId,
   amount |-> call.amount, originalTransactionId |-> 0,
   reason |-> "REGISTRATION_FAILED"]

RollbackRequest(call) ==
  [roundId |-> call.roundId, playerId |-> call.playerId,
   amount |-> call.amount, originalTransactionId |-> call.txId,
   reason |-> "REGISTRATION_FAILED"]

\* The bet tracked without the debit's transaction id.
ActiveBetEntry_noTransactionId(c, call, transactionId) ==
  [playerId |-> call.playerId, transactionId |-> 0,
   roundId |-> call.roundId, amount |-> call.amount,
   sessionId |-> call.sessionId, call |-> c]

ActiveBetEntry(c, call, transactionId) ==
  [playerId |-> call.playerId, transactionId |-> transactionId,
   roundId |-> call.roundId, amount |-> call.amount,
   sessionId |-> call.sessionId, call |-> c]

NextCall(c) == calls[c].pc = "idle" /\ \A d \in CallIds : d < c => calls[d].pc # "idle"

\* Date.now() read by call c's callbackService.placeBet.  Two bet messages
\* can be handled within one millisecond; that shows only when the previous
\* call built a request id for the same round and player.
SameMsPossible(c, playerId) ==
  /\ c > 1
  /\ calls[c - 1].requestId.t = now
  /\ calls[c - 1].requestId.roundId = currentRound.id
  /\ calls[c - 1].requestId.playerId = playerId

DispatchMs(c, playerId, sameMs) ==
  IF sameMs /\ SameMsPossible(c, playerId) THEN calls[c - 1].requestId.ms ELSE c

\* placeBet up to the await of callbackService.placeBet.
PlaceBet(c, sessionId, amount, choice, sameMs) ==
  /\ NextCall(c)
  /\ sameMs => /\ sessionId \in DOMAIN sessions
               /\ SameMsPossible(c, sessions[sessionId].playerId)
  /\ sessions' = getSession_sessions(sessions, sessionId)
  /\ LET err == placeBet_validation(sessionId, amount, choice)
     IN IF err # "none"
        THEN calls' = [calls EXCEPT ![c] = [IdleCall EXCEPT !.pc = "done", !.err = err]]
        ELSE LET playerId == sessions[sessionId].playerId
             IN calls' = [calls EXCEPT ![c] =
                  [IdleCall EXCEPT !.pc = "debit", !.sessionId = sessionId,
                                   !.playerId = playerId,
                                   !.amount = roundedAmount(amount.cents),
                                   !.choice = choice,
                                   !.roundId = currentRound.id,
                                   !.requestId = BetRequestId(currentRound.id, playerId, now,
                                                              DispatchMs(c, playerId, sameMs))]]
  /\ UNCHANGED <<engineVars, schedulerVars, activeBets, pendingTransactions,
                 now, debits, credits, processed, flipVars, logVars>>

\* Date.now() passes a session's expiresAt.
SessionExpires(sessionId) ==
  /\ sessionId \in DOMAIN sessions
  /\ ~sessions[sessionId].expired
  /\ sessions' = [sessions EXCEPT ![sessionId].expired = TRUE]
  /\ UNCHANGED <<engineVars, schedulerVars, activeBets, pendingTransactions, calls,
                 now, debits, credits, processed, flipVars, logVars>>

\* The interval timer of the SessionService constructor fires.
SessionSweep ==
  /\ sessions' = cleanupExpiredSessions(sessions)
  /\ UNCHANGED <<engineVars, schedulerVars, activeBets, pendingTransactions, calls,
                 now, debits, credits, processed, flipVars, logVars>>

\* The platform answers the debit: callbackService.placeBet returns and
\* placeBet runs on to its return, its throw, or the await of rollback.
DebitResponse(c, resp) ==
  /\ calls[c].pc = "debit"
  /\ LET call == calls[c]
         ok == placeBet_success(resp)
         txId == PlatformTransactionId(c)
         regErr == addBet_error(currentRound, call.playerId, call.choice)
         acked == [call EXCEPT !.resp = resp, !.txId = txId, !.addBetCalled = TRUE,
                               !.hadEntry = getPlayerBet_exists(currentRound, call.playerId),
                               !.addStatus = currentRound.status]
     IN IF ~ok
        THEN /\ calls' = [calls EXCEPT ![c] = [call EXCEPT !.pc = "done", !.resp = resp,
                                                           !.err = ErrPlatform]]
             /\ UNCHANGED <<currentRound, activeBets, pendingTransactions, debits>>
        ELSE /\ debits' = debits \cup {[txId |-> txId, playerId |-> call.playerId,
                                        amount |-> call.amount, roundId |-> call.roundId,
                                        call |-> c]}
             /\ pendingTransactions' = setPendingTransaction(pendingTransactions,
                  [requestId |-> call.requestId, type |-> "bet", roundId |-> call.roundId,
                   playerId |-> call.playerId, amount |-> call.amount,
                   transactionId |-> txId])
             /\ IF regErr = "none"
                THEN /\ currentRound' = addBet(currentRound, call.playerId, call.amount,
                                               call.choice, call.sessionId, now, c)
                     /\ activeBets' = ActiveSet(activeBets, ActiveBetEntry(c, acked, txId))
                     /\ calls' = [calls EXCEPT ![c] =
                          [acked EXCEPT !.pc = "done", !.registered = TRUE,
                                        !.regRound = currentRound.id, !.success = TRUE]]
                ELSE /\ calls' = [calls EXCEPT ![c] =
                          [acked EXCEPT !.pc = "rollback", !.regErr = regErr,
                                        !.rollbacks = @ + 1,
                                        !.rollback = RollbackRequest(acked)]]
                     /\ UNCHANGED <<currentRound, activeBets>>
  /\ UNCHANGED <<seedManager, roundHistory, rounds, schedulerVars, sessions, now,
                 credits, processed, flipVars, logVars>>

\* The platform answers the rollback: placeBet rethrows the registration error.
RollbackResponse(c, resp) ==
  /\ calls[c].pc = "rollback"
  /\ pendingTransactions' = IF rollback_success(resp)
                            THEN clearPendingTransaction(pendingTransactions, calls[c].txId)
                            ELSE pendingTransactions
  /\ calls' = [calls EXCEPT ![c] = [@ EXCEPT !.pc = "done", !.refundResp = resp,
                                             !.err = calls[c].regErr]]
  /\ UNCHANGED <<engineVars, schedulerVars, activeBets, sessions, now, debits, credits, processed, flipVars, logVars>>

\* processRoundResults: index of the first winner at or after from that has
\* an activeBets entry (the others are skipped), 0 when there is none.
NextCreditIndex(winners, ab, from) ==
  IF \E i \in from..Len(winners) : ActiveHas(ab, winners[i].playerId)
  THEN CHOOSE i \in from..Len(winners) :
         /\ ActiveHas(ab, winners[i].playerId)
         /\ \A j \in from..(i - 1) : ~ActiveHas(ab, winners[j].playerId)
  ELSE 0

\* The losers' entries left in place.
processLosers_keep(ab, losers) == ab

processLosers(ab, losers) == {e \in ab : ~MapHas(losers, e.playerId)}

\* Every credit reported as a success.
CreditResult_successAlways(winner, resp) ==
  [playerId |-> winner.playerId, success |-> TRUE,
   winAmount |-> winner.winAmount, error |-> "none"]

\* The entry processRoundResults pushes for a winner: winAmount on success,
\* the failure's message or code otherwise.
CreditResult(winner, resp) ==
  [playerId |-> winner.playerId, success |-> creditWin_success(resp),
   winAmount |-> IF creditWin_success(resp) THEN winner.winAmount ELSE 0,
   error |-> IF creditWin_success(resp) THEN "none" ELSE resp]

\* The bet amount sent as the win amount.
CreditRequest_betAsWin(round, winner, activeBet, resp) ==
  [roundId |-> round.id, playerId |-> winner.playerId, betAmount |-> winner.betAmount,
   winAmount |-> winner.betAmount, betTransactionId |-> activeBet.transactionId,
   resp |-> resp]

CreditRequest(round, winner, activeBet, resp) ==
  [roundId |-> round.id, playerId |-> winner.playerId, betAmount |-> winner.betAmount,
   winAmount |-> winner.winAmount, betTransactionId |-> activeBet.transactionId,
   resp |-> resp]

\* ----------------------------------------- services/roundService.js
\* sessionService.getSessionByPlayerId for each of the players: the session
\* map it leaves (the lookup destroys a session found expired).
getSessionByPlayerId_sessions(ss, players) ==
  [t \in {u \in DOMAIN ss : ~(ss[u].playerId \in players /\ ss[u].expired)} |-> ss[t]]

\* setTimeout(callback, delay) at time due - delay.  The timers of one kind
\* share one delay, so each kind's queue is in the order of its times due.
\* The timer for the next round never set.
AddTimer_noStart(tm, kind, due) ==
  IF kind = "start" THEN tm ELSE [tm EXCEPT ![kind] = Append(@, due)]

AddTimer(tm, kind, due) == [tm EXCEPT ![kind] = Append(@, due)]
TakeTimer(tm, kind) == [tm EXCEPT ![kind] = Tail(@)]

\* The oldest timer of this kind is due no later than any other timer.
TimerDue(kind) ==
  /\ timers[kind] # <<>>
  /\ \A k \in TimerKinds : timers[k] # <<>> => Head(timers[kind]) <= Head(timers[k])

\* processRoundResults from winner index idx on, then the rest of
\* RoundService.finishRound: either the next creditWin is awaited, or the
\* losers are cleaned up and the next round is scheduled.
Settle(others, round, idx, ab, results, tm, ss, time) ==
  IF idx # 0
  THEN /\ settling' = others \cup {[round |-> round, idx |-> idx,
                                    activeBet |-> ActiveGet(ab, round.winners[idx].playerId),
                                    results |-> results]}
       /\ activeBets' = ab
       /\ timers' = tm
       /\ sessions' = ss
       /\ processed' = processed
  ELSE /\ settling' = others
       /\ activeBets' = processLosers(ab, round.losers)
       /\ processed' = Append(processed, [roundId |-> round.id, winners |-> round.winners,
                                          losers |-> round.losers, results |-> results,
                                          time |-> time])
       /\ sessions' = getSessionByPlayerId_sessions(ss,
                         {round.winners[i].playerId : i \in 1..Len(round.winners)}
                           \cup {round.losers[i].playerId : i \in 1..Len(round.losers)})
       /\ timers' = AddTimer(tm, "start", time + ROUND_DELAY_MS)

\* startNewRound past its isRunning test.
startNewRound(sm, tm, time, root, clientSeed) ==
  /\ rounds < MaxRounds
  /\ rounds' = rounds + 1
  /\ seedManager' = generateRound_sm(sm, root, clientSeed)
  /\ currentRound' = startBettingPhase(generateRound(sm, time, root, clientSeed))
  /\ events' = emit(events, listeners', BettingPhaseEvent(currentRound'))
  /\ timers' = AddTimer(tm, "reveal", time + BETTING_PHASE_MS)

start(root, clientSeed) ==
  /\ starts' = starts + 1
  /\ IF isRunning
     THEN UNCHANGED <<engineVars, isRunning, timers, logVars>>
     ELSE /\ isRunning' = TRUE
          /\ listeners' = listeners + 1
          /\ UNCHANGED revealErrors
          /\ startNewRound(SeedManager_initialize(seedManager, root, clientSeed), timers, now,
                           root, clientSeed)
          /\ UNCHANGED roundHistory
  /\ UNCHANGED <<settling, activeBets, pendingTransactions, sessions, calls, now,
                 debits, credits, processed, flipVars>>

stop ==
  /\ isRunning' = FALSE
  /\ UNCHANGED <<engineVars, timers, settling, starts, activeBets, pendingTransactions,
                 sessions, calls, now, debits, credits, processed, flipVars, logVars>>

\* The betting timer fires: revealRound.
TimerReveal ==
  /\ TimerDue("reveal")
  /\ now' = Head(timers["reveal"])
  /\ IF ~isRunning
     THEN /\ timers' = TakeTimer(timers, "reveal")
          /\ UNCHANGED <<currentRound, events, revealErrors>>
     ELSE IF startReveal_ok(currentRound)
     THEN /\ currentRound' = startReveal(currentRound, now')
          /\ events' = emit(events, listeners, RoundRevealEvent(currentRound'))
          /\ timers' = AddTimer(TakeTimer(timers, "reveal"), "finish",
                                now' + RESULT_REVEAL_MS)
          /\ UNCHANGED revealErrors
     ELSE /\ timers' = TakeTimer(timers, "reveal")
          /\ revealErrors' = revealErrors + 1
          /\ UNCHANGED <<currentRound, events>>
  /\ UNCHANGED <<seedManager, roundHistory, rounds, isRunning, settling, starts,
                 activeBets, pendingTransactions, sessions, calls, debits, credits, processed, flipVars,
                 listeners>>

\* The reveal timer fires: RoundService.finishRound up to its first await.
TimerFinish(root, clientSeed) ==
  /\ TimerDue("finish")
  /\ now' = Head(timers["finish"])
  /\ IF isRunning /\ currentRound.status # "null"
     THEN LET finished == [currentRound EXCEPT !.status = "finished", !.endTime = now']
          IN /\ events' = emit(events, listeners, verificationData(finished))
             /\ roundHistory' = pushHistory(roundHistory, finished)
             /\ seedManager' = advanceToNextSeed(seedManager, root, clientSeed)
             /\ currentRound' = NullRound
             /\ Settle(settling, finished,
                       NextCreditIndex(finished.winners, activeBets, 1),
                       activeBets, <<>>, TakeTimer(timers, "finish"), sessions, now')
     ELSE /\ timers' = TakeTimer(timers, "finish")
          /\ UNCHANGED <<seedManager, currentRound, roundHistory, settling, activeBets,
                         events, sessions, processed>>
  /\ UNCHANGED <<rounds, isRunning, starts, pendingTransactions, calls,
                 debits, credits, flipVars, listeners, revealErrors>>

\* The platform answers a creditWin: processRoundResults goes on.
CreditResponse(s, resp) ==
  /\ s \in settling
  /\ LET winner == s.round.winners[s.idx]
         ab == ActiveDelete(activeBets, winner.playerId)
     IN /\ credits' = Append(credits, CreditRequest(s.round, winner, s.activeBet, resp))
        /\ pendingTransactions' =
             IF creditWin_success(resp)
             THEN clearPendingTransaction(pendingTransactions, s.activeBet.transactionId)
             ELSE pendingTransactions
        /\ Settle(settling \ {s}, s.round,
                  NextCreditIndex(s.round.winners, ab, s.idx + 1),
                  ab, Append(s.results, CreditResult(winner, resp)), timers,
                  IF creditWin_success(resp)
                  THEN getSessionByPlayerId_sessions(sessions, {winner.playerId})
                  ELSE sessions,
                  now)
  /\ UNCHANGED <<engineVars, isRunning, starts, calls, now, debits, flipVars, logVars>>

\* The inter-round timer fires: startNewRound.
TimerStart(root, clientSeed) ==
  /\ TimerDue("start")
  /\ now' = Head(timers["start"])
  /\ UNCHANGED <<listeners, revealErrors>>
  /\ IF isRunning
     THEN startNewRound(seedManager, TakeTimer(timers, "start"), now', root, clientSeed)
     ELSE /\ timers' = TakeTimer(timers, "start")
          /\ UNCHANGED <<seedManager, currentRound, rounds, events>>
  /\ UNCHANGED <<roundHistory, isRunning, settling, starts, activeBets,
                 pendingTransactions, sessions, calls, debits, credits, processed,
                 flipVars>>

\* ------------------------------------------------------------ server.js
\* server.listen's callback starts the loop once; SIGTERM and SIGINT stop it.
ServerListen(root, clientSeed) == starts = 0 /\ start(root, clientSeed)

Signal == isRunning /\ stop

Next ==
  \/ \E root \in SeedRoots, clientSeed \in ClientSeeds : ServerListen(root, clientSeed)
  \/ Signal
  \/ TimerReveal
  \/ \E root \in SeedRoots, clientSeed \in ClientSeeds : TimerFinish(root, clientSeed)
  \/ \E root \in SeedRoots, clientSeed \in ClientSeeds : TimerStart(root, clientSeed)
  \/ \E c \in CallIds, bet \in BetInputs, sameMs \in BOOLEAN :
       PlaceBet(c, bet.sessionId, bet.amount, bet.choice, sameMs)
  \/ \E sessionId \in SessionIds : SessionExpires(sessionId)
  \/ SessionSweep
  \/ \E c \in CallIds, resp \in Responses : DebitResponse(c, resp)
  \/ \E c \in CallIds, resp \in Responses : RollbackResponse(c, resp)
  \/ \E s \in settling, resp \in Responses : CreditResponse(s, resp)

Spec == Init /\ [][Next]_vars

\* The server with its timers firing when due and every creditWin call
\* returning; no session expires.
NextLoop ==
  \/ \E root \in SeedRoots, clientSeed \in ClientSeeds : ServerListen(root, clientSeed)
  \/ Signal
  \/ TimerReveal
  \/ \E root \in SeedRoots, clientSeed \in ClientSeeds : TimerFinish(root, clientSeed)
  \/ \E root \in SeedRoots, clientSeed \in ClientSeeds : TimerStart(root, clientSeed)
  \/ \E c \in CallIds, bet \in BetInputs, sameMs \in BOOLEAN :
       PlaceBet(c, bet.sessionId, bet.amount, bet.choice, sameMs)
  \/ \E c \in CallIds, resp \in Responses : DebitResponse(c, resp)
  \/ \E c \in CallIds, resp \in Responses : RollbackResponse(c, resp)
  \/ \E s \in settling, resp \in Responses : CreditResponse(s, resp)

SpecLoop ==
  /\ Init
  /\ [][NextLoop]_vars
  /\ WF_vars(TimerReveal)
  /\ WF_vars(\E root \in SeedRoots, clientSeed \in ClientSeeds : TimerFinish(root, clientSeed))
  /\ WF_vars(\E root \in SeedRoots, clientSeed \in ClientSeeds : TimerStart(root, clientSeed))
  /\ WF_vars(\E s \in settling, resp \in Responses : CreditResponse(s, resp))

\* The server against a platform that may answer with any combination of
\* status and transactionId the response format allows; no session expires.
NextPlatform ==
  \/ \E root \in SeedRoots, clientSeed \in ClientSeeds : ServerListen(root, clientSeed)
  \/ Signal
  \/ TimerReveal
  \/ \E root \in SeedRoots, clientSeed \in ClientSeeds : TimerFinish(root, clientSeed)
  \/ \E root \in SeedRoots, clientSeed \in ClientSeeds : TimerStart(root, clientSeed)
  \/ \E c \in CallIds, bet \in BetInputs, sameMs \in BOOLEAN :
       PlaceBet(c, bet.sessionId, bet.amount, bet.choice, sameMs)
  \/ \E c \in CallIds, resp \in PlatformResponses : DebitResponse(c, resp)
  \/ \E c \in CallIds, resp \in PlatformResponses : RollbackResponse(c, resp)
  \/ \E s \in settling, resp \in PlatformResponses : CreditResponse(s, resp)

SpecPlatform == Init /\ [][NextPlatform]_vars

\* RoundService driven through its public start and stop in any order, the
\* timers of an earlier run still pending when the next one starts.
Start(root, clientSeed) == starts < MaxStarts /\ start(root, clientSeed)

Stop == isRunning /\ stop

\* Time passes with no callback run: no pending timer is overtaken.
Elapse(ms) ==
  /\ \E k \in TimerKinds : timers[k] # <<>>
  /\ \A k \in TimerKinds : timers[k] # <<>> => now + ms <= Head(timers[k])
  /\ now' = now + ms
  /\ UNCHANGED <<engineVars, schedulerVars, activeBets, pendingTransactions, sessions,
                 calls, debits, credits, processed, flipVars, logVars>>

NextRestart ==
  \/ \E root \in SeedRoots, clientSeed \in ClientSeeds : Start(root, clientSeed)
  \/ Stop
  \/ \E ms \in ElapseSteps : Elapse(ms)
  \/ TimerReveal
  \/ \E root \in SeedRoots, clientSeed \in ClientSeeds : TimerFinish(root, clientSeed)
  \/ \E root \in SeedRoots, clientSeed \in ClientSeeds : TimerStart(root, clientSeed)
  \/ \E c \in 1..MaxRestartCalls, bet \in BetInputs, sameMs \in BOOLEAN :
       PlaceBet(c, bet.sessionId, bet.amount, bet.choice, sameMs)
  \/ \E c \in 1..MaxRestartCalls, resp \in Responses : DebitResponse(c, resp)
  \/ \E c \in 1..MaxRestartCalls, resp \in Responses : RollbackResponse(c, resp)
  \/ \E s \in settling, resp \in Responses : CreditResponse(s, resp)

SpecRestart == Init /\ [][NextRestart]_vars

\* The SeedManager on its own, from its constructor: initialize,
\* getCurrentServerSeed and advanceToNextSeed in any order.
ProbeVarsUnchanged ==
  UNCHANGED <<currentRound, roundHistory, isRunning, timers, settling, starts, rounds,
              activeBets, pendingTransactions, sessions, calls, now, debits, credits, processed,
              flipIn, flipOut, events, listeners, revealErrors, engineProbe, request,
              directory, sockets, sessionProbe>>

SeedInitialize(root, clientSeed) ==
  /\ seedProbe.steps < MaxSeedSteps
  /\ seedManager' = SeedManager_initialize(seedManager, root, clientSeed)
  /\ seedProbe' = [op |-> "initialize", seed |-> NoSeed, steps |-> seedProbe.steps + 1]
  /\ ProbeVarsUnchanged

SeedGetCurrent(root, clientSeed) ==
  /\ seedProbe.steps < MaxSeedSteps
  /\ seedManager' = getCurrentServerSeed(seedManager, root, clientSeed)
  /\ seedProbe' = [op |-> "getCurrentServerSeed",
                   seed |-> seedChainAt(seedManager', seedManager'.currentIndex),
                   steps |-> seedProbe.steps + 1]
  /\ ProbeVarsUnchanged

SeedAdvance(root, clientSeed) ==
  /\ seedProbe.steps < MaxSeedSteps
  /\ seedManager' = advanceToNextSeed(seedManager, root, clientSeed)
  /\ seedProbe' = [op |-> "advanceToNextSeed", seed |-> NoSeed,
                   steps |-> seedProbe.steps + 1]
  /\ ProbeVarsUnchanged

NextSeeds ==
  \/ \E root \in SeedRoots, clientSeed \in ClientSeeds : SeedInitialize(root, clientSeed)
  \/ \E root \in SeedRoots, clientSeed \in ClientSeeds : SeedGetCurrent(root, clientSeed)
  \/ \E root \in SeedRoots, clientSeed \in ClientSeeds : SeedAdvance(root, clientSeed)

SpecSeeds == Init /\ [][NextSeeds]_vars

\* calculateFlipResult on every value of the first hash byte.
InitFlip ==
  /\ Init!1 /\ Init!2 /\ Init!3 /\ Init!4 /\ Init!5 /\ Init!6 /\ Init!7 /\ Init!8
  /\ Init!9 /\ Init!10 /\ Init!11 /\ Init!12 /\ Init!13 /\ Init!14 /\ Init!15
  /\ Init!18 /\ Init!19 /\ Init!20 /\ Init!21 /\ Init!22 /\ Init!23 /\ Init!24
  /\ Init!25 /\ Init!26 /\ Init!27
  /\ flipIn \in 0..255
  /\ flipOut = "none"

ApplyFlip ==
  /\ flipOut = "none"
  /\ flipOut' = flipResultOfByte(flipIn)
  /\ UNCHANGED <<seedManager, currentRound, roundHistory, isRunning, timers, settling,
                 starts, rounds, activeBets, pendingTransactions, sessions, calls, now,
                 debits, credits, processed, flipIn, events, listeners, revealErrors, seedProbe,
                 engineProbe, request, directory, sockets, sessionProbe>>

NextFlip == ApplyFlip

SpecFlip == InitFlip /\ [][NextFlip]_vars

\* The CallbackService on its own: placeBet, creditWin, rollback and
\* getBalance called one after the other, each makeRequest followed attempt
\* by attempt.
RequestVarsUnchanged ==
  UNCHANGED <<engineVars, schedulerVars, activeBets, sessions, calls, debits, credits,
              processed, flipIn, flipOut, seedProbe, engineProbe, logVars,
              directory, sockets, sessionProbe>>

\* The round and the amount, in cents, of the calls made on the service alone.
RequestRound == [t |-> 0, nonce |-> 0]
RequestAmount == 380

RequestCall(op, playerId, transactionId) ==
  /\ request.pc \in {"idle", "done"}
  /\ request.n < MaxRequests
  /\ op \in {"placeBet", "getBalance"} => transactionId = 0
  /\ op \in {"creditWin", "rollback"} => transactionId # 0
  /\ request' = [NoRequest EXCEPT
       !.op = op, !.pc = "fetch", !.attempt = 1, !.playerId = playerId,
       !.transactionId = transactionId,
       !.requestId = IF op = "placeBet"
                     THEN BetRequestId(RequestRound, playerId, now, request.n + 1)
                     ELSE NoRequestId,
       !.n = request.n + 1]
  /\ UNCHANGED <<pendingTransactions, now>>
  /\ RequestVarsUnchanged

\* makeRequest is over, with a response or with the last attempt's error:
\* the rest of the calling method.
RequestReturns(outcomes, mr) ==
  LET result == callbackResult(request.op, mr)
      acknowledged == result.kind = "return" /\ result.success
      transactionId == PlatformTransactionId(request.n)
  IN /\ request' = [request EXCEPT
          !.pc = "done", !.outcomes = outcomes, !.result = result,
          !.transactionId = IF request.op = "placeBet" /\ acknowledged
                            THEN transactionId ELSE @]
     /\ pendingTransactions' =
          IF ~acknowledged \/ request.op = "getBalance" THEN pendingTransactions
          ELSE IF request.op = "placeBet"
          THEN setPendingTransaction(pendingTransactions,
                 [requestId |-> request.requestId, type |-> "bet",
                  roundId |-> RequestRound, playerId |-> request.playerId,
                  amount |-> RequestAmount, transactionId |-> transactionId])
          ELSE clearPendingTransaction(pendingTransactions, request.transactionId)

\* One fetch of makeRequest settles.
RequestAttempt(outcome) ==
  /\ request.pc = "fetch"
  /\ now' = IF outcome = "TIMEOUT" THEN now + TIMEOUT_MS ELSE now
  /\ LET outcomes == Append(request.outcomes, outcome)
     IN IF outcome \in AttemptResponses
        THEN RequestReturns(outcomes, [kind |-> "response", resp |-> outcome,
                                       message |-> "none"])
        ELSE IF makeRequest_retries(request.attempt)
        THEN /\ request' = [request EXCEPT !.pc = "delay", !.outcomes = outcomes,
                                           !.delayMs = makeRequest_delay(request.attempt)]
             /\ UNCHANGED pendingTransactions
        ELSE RequestReturns(outcomes, [kind |-> "error", resp |-> "FAIL",
                                       message |-> outcome])
  /\ RequestVarsUnchanged

\* The delay before the next attempt is over: makeRequest calls itself.
RequestDelayElapsed ==
  /\ request.pc = "delay"
  /\ now' = now + request.delayMs
  /\ request' = [request EXCEPT !.pc = "fetch", !.attempt = @ + 1,
                                !.waits = Append(@, request.delayMs)]
  /\ UNCHANGED pendingTransactions
  /\ RequestVarsUnchanged

NextRequest ==
  \/ \E op \in Operations, playerId \in Players, transactionId \in 0..MaxRequests :
       RequestCall(op, playerId, transactionId)
  \/ \E outcome \in AttemptResponses \cup AttemptFailures : RequestAttempt(outcome)
  \/ RequestDelayElapsed

\* Every fetch settles, by AbortSignal.timeout at the latest, and every
\* setTimeout of delay fires.
SpecRequest ==
  /\ Init
  /\ [][NextRequest]_vars
  /\ WF_vars(\E outcome \in AttemptResponses \cup AttemptFailures : RequestAttempt(outcome))
  /\ WF_vars(RequestDelayElapsed)

\* The FlipEngine on its own: the round cycle in the order RoundService drives
\* it, and addBet called at any point with any player and choice.
EngineVarsUnchanged ==
  UNCHANGED <<isRunning, timers, settling, starts, activeBets, pendingTransactions,
              sessions, calls, debits, credits, processed, flipIn, flipOut, events, listeners,
              revealErrors, seedProbe, request, directory, sockets, sessionProbe>>

EngineStartBetting(root, clientSeed) ==
  /\ currentRound.status = "null"
  /\ rounds < MaxEngineRounds
  /\ rounds' = rounds + 1
  /\ now' = now + 1
  /\ seedManager' = generateRound_sm(seedManager, root, clientSeed)
  /\ currentRound' = startBettingPhase(generateRound(seedManager, now', root, clientSeed))
  /\ UNCHANGED <<roundHistory, engineProbe>>
  /\ EngineVarsUnchanged

EngineStartReveal ==
  /\ startReveal_ok(currentRound)
  /\ now' = now + 1
  /\ currentRound' = startReveal(currentRound, now')
  /\ UNCHANGED <<seedManager, roundHistory, rounds, engineProbe>>
  /\ EngineVarsUnchanged

EngineFinishRound(root, clientSeed) ==
  /\ currentRound.status = "revealing"
  /\ now' = now + 1
  /\ roundHistory' = pushHistory(roundHistory,
                        [currentRound EXCEPT !.status = "finished", !.endTime = now'])
  /\ seedManager' = advanceToNextSeed(seedManager, root, clientSeed)
  /\ currentRound' = NullRound
  /\ UNCHANGED <<rounds, engineProbe>>
  /\ EngineVarsUnchanged

EngineAddBet(playerId, amount, choice) ==
  /\ rounds <= MaxEngineBetRounds
  /\ LET err == addBet_error(currentRound, playerId, choice)
     IN /\ engineProbe' = [op |-> "addBet", roundId |-> currentRound.id,
                           status |-> currentRound.status, playerId |-> playerId,
                           choice |-> choice, err |-> err]
        /\ currentRound' = IF err = "none"
                           THEN addBet(currentRound, playerId, amount, choice, "none", now, 0)
                           ELSE currentRound
  /\ UNCHANGED <<seedManager, roundHistory, rounds, now>>
  /\ EngineVarsUnchanged

NextEngine ==
  \/ \E root \in SeedRoots, clientSeed \in ClientSeeds : EngineStartBetting(root, clientSeed)
  \/ EngineStartReveal
  \/ \E root \in SeedRoots, clientSeed \in ClientSeeds : EngineFinishRound(root, clientSeed)
  \/ \E playerId \in Players, amount \in EngineAmounts, choice \in Choices \cup {"SIDE"} :
       EngineAddBet(playerId, amount, choice)

SpecEngine == Init /\ [][NextEngine]_vars

\* ---------------------------------- the session directory and the sockets
\* POST /session/init with all fields present: createSession.  Date.now()
\* advances by tick between its two reads.
CreateSession(playerId, tick) ==
  /\ directory.created < MaxSessions
  /\ directory.ticks + tick <= MaxTicks
  /\ now' = now + tick
  /\ directory' = [SessionService_createSession(directory, playerId, now, now')
                     EXCEPT !.ticks = @ + tick]
  /\ UNCHANGED <<engineVars, schedulerVars, activeBets, pendingTransactions, sessions,
                 calls, debits, credits, processed, flipIn, flipOut, seedProbe,
                 engineProbe, request, sockets, sessionProbe, logVars>>

\* Time passes between two callbacks.
SessionClock(ms) ==
  /\ directory.ticks < MaxTicks
  /\ now' = now + ms
  /\ directory' = [directory EXCEPT !.ticks = @ + 1]
  /\ UNCHANGED <<engineVars, schedulerVars, activeBets, pendingTransactions, sessions,
                 calls, debits, credits, processed, flipIn, flipOut, seedProbe,
                 engineProbe, request, sockets, sessionProbe, logVars>>

\* The cleanup interval set in the constructor runs, at or after its time due.
SessionCleanup ==
  /\ directory.sweeps < MaxSweeps
  /\ now >= (directory.sweeps + 1) * CLEANUP_INTERVAL_MS
  /\ directory' = [SessionService_cleanupExpiredSessions(directory, now)
                     EXCEPT !.sweeps = @ + 1]
  /\ UNCHANGED <<engineVars, schedulerVars, activeBets, pendingTransactions, sessions,
                 calls, now, debits, credits, processed, flipIn, flipOut, seedProbe,
                 engineProbe, request, sockets, sessionProbe, logVars>>

\* The record of a getSession call.
Lookup(sessionId, session) ==
  [n |-> sessionProbe.n + 1, sessionId |-> sessionId, session |-> session]

\* A socket connects to the game or the controls namespace with sessionId in
\* its handshake.  A game socket has its handlers registered when the
\* connection handler returns, a controls socket after the balance was
\* fetched.
SocketConnect(k, ns, sessionId) ==
  /\ sockets[k].state = "none"
  /\ sessionProbe.n < MaxLookups
  /\ LET r == SessionService_getSession(directory, sessionId, now)
     IN /\ sessionProbe' = Lookup(sessionId, r.session)
        /\ IF r.session = NoSession
           THEN /\ directory' = r.dir
                /\ sockets' = [sockets EXCEPT ![k] =
                     [ns |-> ns, state |-> "disconnected", sessionId |-> sessionId,
                      playerId |-> "none", emitted |-> "error INVALID_SESSION"]]
           ELSE /\ directory' = SessionService_setSocket(r.dir, sessionId, ns, k)
                /\ sockets' = [sockets EXCEPT ![k] =
                     [ns |-> ns, state |-> IF ns = "game" THEN "open" ELSE "pending",
                      sessionId |-> sessionId, playerId |-> r.session.playerId,
                      emitted |-> IF ns = "game" THEN "history" ELSE "none"]]
  /\ UNCHANGED <<engineVars, schedulerVars, activeBets, pendingTransactions, sessions,
                 calls, now, debits, credits, processed, flipIn, flipOut, seedProbe,
                 engineProbe, request, logVars>>

\* getBalance returned to the controls connection handler: the round state
\* and the bet status are sent and the handlers registered.
ControlsReady(k) ==
  /\ sockets[k].state = "pending"
  /\ sockets' = [sockets EXCEPT ![k] = [@ EXCEPT !.state = "open",
                                                !.emitted = "bet_status"]]
  /\ UNCHANGED <<engineVars, schedulerVars, activeBets, pendingTransactions, sessions,
                 calls, now, debits, credits, processed, flipIn, flipOut, seedProbe,
                 engineProbe, request, directory, sessionProbe, logVars>>

\* The client closes its socket: the 'disconnect' handler, if registered,
\* clears the socket from the session of the handshake.
SocketDisconnect(k) ==
  /\ sockets[k].state \in {"pending", "open"}
  /\ sockets' = [sockets EXCEPT ![k] = [@ EXCEPT !.state = "disconnected"]]
  /\ directory' = IF sockets[k].state = "open"
                  THEN SessionService_clearSocket(directory, sockets[k].sessionId,
                                                  sockets[k].ns)
                  ELSE directory
  /\ UNCHANGED <<engineVars, schedulerVars, activeBets, pendingTransactions, sessions,
                 calls, now, debits, credits, processed, flipIn, flipOut, seedProbe,
                 engineProbe, request, sessionProbe, logVars>>

\* A 'bet' message on a controls socket: placeBet throws in its synchronous
\* head and the handler answers bet_result with the error's message.  The
\* bets that go on to the platform are those of PlaceBet.
SocketBet(k, amount, choice) ==
  /\ sockets[k].state = "open"
  /\ sockets[k].ns = "controls"
  /\ sessionProbe.n < MaxLookups
  /\ LET r == SessionService_getSession(directory, sockets[k].sessionId, now)
         err == IF r.session = NoSession
                THEN ErrSession
                ELSE placeBet_checks(r.session.playerId, amount, choice)
     IN /\ err # "none"
        /\ sessionProbe' = Lookup(sockets[k].sessionId, r.session)
        /\ directory' = r.dir
        /\ sockets' = [sockets EXCEPT ![k] = [@ EXCEPT !.emitted = err]]
  /\ UNCHANGED <<engineVars, schedulerVars, activeBets, pendingTransactions, sessions,
                 calls, now, debits, credits, processed, flipIn, flipOut, seedProbe,
                 engineProbe, request, logVars>>

\* The session service and the two namespaces between two rounds.
NextSessions ==
  \/ \E playerId \in Players, tick \in CreateTicks : CreateSession(playerId, tick)
  \/ \E ms \in SessionClockSteps : SessionClock(ms)
  \/ SessionCleanup
  \/ \E k \in SocketIds, ns \in SocketNamespaces, sessionId \in PresentedSessionIds :
       SocketConnect(k, ns, sessionId)
  \/ \E k \in SocketIds : ControlsReady(k)
  \/ \E k \in SocketIds : SocketDisconnect(k)
  \/ \E k \in SocketIds, bet \in SocketBets : SocketBet(k, bet.amount, bet.choice)

SpecSessions == Init /\ [][NextSessions]_vars

\* ------------------------------------------------------------ properties
\* The rounds whose winners and losers have been computed: the current round
\* once it is revealing, and the finished rounds still being settled.
RevealedRounds ==
  (IF currentRound.status = "revealing" THEN {currentRound} ELSE {})
    \cup {s.round : s \in settling}

LedgerOf(round) ==
  {[playerId |-> round.bets[i].playerId, amount |-> round.bets[i].amount,
    choice |-> round.bets[i].choice] : i \in 1..Len(round.bets)}

ClassifiedOf(round) ==
  {[playerId |-> round.winners[i].playerId, amount |-> round.winners[i].betAmount,
    choice |-> round.winners[i].choice] : i \in 1..Len(round.winners)}
    \cup
  {[playerId |-> round.losers[i].playerId, amount |-> round.losers[i].betAmount,
    choice |-> round.losers[i].choice] : i \in 1..Len(round.losers)}

\* C1: once startReveal has run for a round, no entry is added to its
\* ledger: the winners and losers computed at reveal are, entry for entry,
\* the round's ledger in every later state.
C1_NoBetAfterReveal ==
  \A round \in RevealedRounds :
    /\ LedgerOf(round) = ClassifiedOf(round)
    /\ Len(round.bets) = Len(round.winners) + Len(round.losers)

\* A debit acknowledged while its own round is revealing, with a bet already
\* in that round's ledger, has been turned away.
C1_Witness ==
  /\ currentRound.status = "revealing"
  /\ Len(currentRound.bets) > 0
  /\ \E c \in CallIds :
       /\ calls[c].addBetCalled
       /\ calls[c].addStatus = "revealing"
       /\ calls[c].roundId = currentRound.id
       /\ ~calls[c].registered

\* C2: a bet is only ever registered in the ledger of the round whose id
\* was sent with its debit; an acknowledgement that arrives after that round
\* left betting never registers the bet.
C2_BetOnlyInDebitRound ==
  \A c \in CallIds : calls[c].registered => calls[c].regRound = calls[c].roundId

\* C3: when the debit is acknowledged and addBet rejects, placeBet issues
\* exactly one rollback, carrying the debit's transaction id, the debited
\* amount and the reason REGISTRATION_FAILED, and then throws the error
\* addBet threw.
C3_OneRefundOnRegistrationFailure ==
  \A c \in CallIds :
    (calls[c].addBetCalled /\ calls[c].regErr # "none") =>
      /\ calls[c].rollbacks = 1
      /\ calls[c].rollback.reason = "REGISTRATION_FAILED"
      /\ \E d \in debits :
           /\ d.call = c
           /\ calls[c].rollback.originalTransactionId = d.txId
           /\ calls[c].rollback.amount = d.amount
           /\ calls[c].rollback.playerId = d.playerId
      /\ calls[c].pc \in {"rollback", "done"}
      /\ calls[c].pc = "done" => (calls[c].err = calls[c].regErr /\ ~calls[c].success)

C3_Witness ==
  \E c \in CallIds :
    /\ calls[c].pc = "done"
    /\ calls[c].resp = "OK"
    /\ calls[c].regErr = ErrClosed
    /\ calls[c].rollbacks = 1

\* C4: when the platform does not acknowledge the debit (an error answer, or
\* every attempt failed), placeBet leaves no ledger entry and no activeBets
\* entry, issues no rollback and reports the failure.
C4_FailedDebitLeavesNothing ==
  \A c \in CallIds :
    calls[c].resp \in {"ERROR", "FAIL"} =>
      /\ calls[c].pc = "done"
      /\ calls[c].err # "none"
      /\ ~calls[c].success
      /\ ~calls[c].registered
      /\ calls[c].rollbacks = 0
      /\ \A i \in 1..Len(currentRound.bets) : currentRound.bets[i].call # c
      /\ \A s \in settling : \A i \in 1..Len(s.round.bets) : s.round.bets[i].call # c
      /\ \A e \in activeBets : e.call # c
      /\ \A d \in debits : d.call # c

C4_Witness ==
  /\ \E c \in CallIds : calls[c].resp = "ERROR" /\ calls[c].pc = "done"
  /\ currentRound.status = "betting"

\* C5: every entry of the current round's ledger was preceded by an
\* acknowledged debit for the same player and amount, and activeBets tracks
\* that debit's transaction id for the player.
C5_LedgerEntryHasDebit ==
  \A i \in 1..Len(currentRound.bets) :
    LET bet == currentRound.bets[i]
    IN /\ ActiveHas(activeBets, bet.playerId)
       /\ \E d \in debits :
            /\ d.playerId = bet.playerId
            /\ d.amount = bet.amount
            /\ d.call = bet.call
            /\ ActiveGet(activeBets, bet.playerId).transactionId = d.txId

C5_Witness ==
  /\ Len(currentRound.bets) = 2
  /\ currentRound.status = "revealing"

\* Settlement of the round with this id has run to its end.
RoundSettled(roundId) ==
  /\ \E i \in 1..Len(roundHistory) : roundHistory[i].id = roundId
  /\ \A s \in settling : s.round.id # roundId

HistoryResult(roundId) ==
  roundHistory[CHOOSE i \in 1..Len(roundHistory) : roundHistory[i].id = roundId].result

\* C6: an acknowledged debit ends in one terminal outcome: a successful
\* credit (registered winner), a final loss (registered loser), or a
\* successful refund (unregistered bet).
C6_AckedDebitIsTerminal ==
  \A c \in CallIds :
    (calls[c].pc = "done" /\ calls[c].resp = "OK") =>
      /\ ~calls[c].registered => calls[c].refundResp = "OK"
      /\ (calls[c].registered /\ RoundSettled(calls[c].regRound)) =>
           \/ calls[c].choice # HistoryResult(calls[c].regRound)
           \/ \E i \in 1..Len(credits) :
                /\ credits[i].betTransactionId = calls[c].txId
                /\ credits[i].resp = "OK"

UniqueLedger(round) ==
  \A i, j \in 1..Len(round.bets) :
    round.bets[i].playerId = round.bets[j].playerId => i = j

\* Every ledger entry is still the one its placeBet call registered.
EntriesIntact(round) ==
  \A i \in 1..Len(round.bets) :
    LET bet == round.bets[i]
    IN /\ calls[bet.call].registered
       /\ ~calls[bet.call].hadEntry
       /\ calls[bet.call].playerId = bet.playerId
       /\ calls[bet.call].amount = bet.amount
       /\ calls[bet.call].choice = bet.choice

C8_WinnersLosersPartition ==
  \A round \in RevealedRounds :
    /\ MapKeys(round.winners) \cap MapKeys(round.losers) = {}
    /\ MapKeys(round.winners) \cup MapKeys(round.losers) = MapKeys(round.bets)
    /\ \A i \in 1..Len(round.bets) :
         /\ MapHas(round.winners, round.bets[i].playerId)
              <=> round.bets[i].choice = round.result
         /\ MapHas(round.losers, round.bets[i].playerId)
              <=> round.bets[i].choice # round.result

C8_Witness ==
  /\ currentRound.status = "revealing"
  /\ Len(currentRound.winners) = 1
  /\ Len(currentRound.losers) = 1

MultiplierX100(result) ==
  IF result = "EDGE" THEN EDGE_MULTIPLIER_X100 ELSE PAYOUT_MULTIPLIER_X100

\* C9: every winner's winAmount is floor(betAmount * multiplier * 100) / 100
\* (here in cents), the multiplier chosen by the outcome alone.
C9_WinAmountFormula ==
  \A round \in RevealedRounds :
    \A i \in 1..Len(round.winners) :
      round.winners[i].winAmount =
        (round.winners[i].betAmount * MultiplierX100(round.result)) \div 100

\* The outcome the cumulative intervals give for byte b, in exact
\* arithmetic: p = b / 255 * 100 against 48.65 and 97.30.
IntervalOutcome(b) ==
  IF b * 10000 < PROBABILITY_HEADS_X100 * 255 THEN "HEADS"
  ELSE IF b * 10000 < (PROBABILITY_HEADS_X100 + PROBABILITY_TAILS_X100) * 255 THEN "TAILS"
  ELSE "EDGE"

EventsOf(kind) == {i \in 1..Len(events) : events[i].event = kind}

\* C11: for every finished round, the verification function applied to the
\* serverSeed, clientSeed and nonce of the round_finished payload gives the
\* outcome that was revealed and archived, whatever the engine did since.
C11_OutcomeRecomputable ==
  \A i \in EventsOf("round_finished") :
    LET e == events[i]
    IN /\ calculateFlipResult(e.serverSeed, e.clientSeed, e.nonce) = e.result
       /\ \A j \in EventsOf("round_reveal") :
            events[j].roundId = e.roundId => events[j].result = e.result
       /\ \A k \in 1..Len(roundHistory) :
            roundHistory[k].id = e.roundId => roundHistory[k].result = e.result

\* Two rounds finished and the chain regenerated since.
C11_Witness ==
  /\ Len(roundHistory) = 2
  /\ seedManager.chains = 2
  /\ \E i \in EventsOf("round_finished") : events[i].result = "EDGE"
  /\ \E i \in EventsOf("round_finished") : events[i].result = "HEADS"

\* C12: for every round in history, the hash of the server seed revealed at
\* finish is the serverSeedHash of the round's betting_phase event, and the
\* clientSeed and nonce of the finish payload are those of that event.
C12_RevealMatchesCommitment ==
  \A k \in 1..Len(roundHistory) :
    LET h == roundHistory[k]
    IN /\ \E i \in EventsOf("betting_phase") : events[i].roundId = h.id
       /\ \E j \in EventsOf("round_finished") : events[j].roundId = h.id
       /\ \A i \in EventsOf("betting_phase"), j \in EventsOf("round_finished") :
            (events[i].roundId = h.id /\ events[j].roundId = h.id) =>
              /\ sha256(events[j].serverSeed) = events[i].serverSeedHash
              /\ sha256(h.serverSeed) = events[i].serverSeedHash
              /\ events[j].clientSeed = events[i].clientSeed
              /\ events[j].nonce = events[i].nonce

C12_Witness ==
  /\ Len(roundHistory) = 2
  /\ roundHistory[1].nonce = 1
  /\ currentRound.status = "null"

RoundInFlight == currentRound.status \in {"pending", "betting", "revealing"}

\* C13: while a round is pending, betting or revealing, no public value (the
\* seed chain's public data, the current-round snapshot, the events
\* broadcast, the history) is that round's server seed.
C13_SeedSecretUntilFinish ==
  RoundInFlight =>
    LET seed == currentRound.serverSeed
    IN /\ getPublicData(seedManager).publicHash # seed
       /\ getCurrentRound(currentRound).serverSeedHash # seed
       /\ \A i \in 1..Len(events) :
            events[i].serverSeed # seed /\ events[i].serverSeedHash # seed
       /\ \A k \in 1..Len(roundHistory) :
            roundHistory[k].serverSeed # seed /\ roundHistory[k].serverSeedHash # seed

\* C14: the hash of a round's server seed is a value the chain made public
\* before the round: the chain's publicHash for the first round of a
\* chain, the server seed revealed for the round before for every other.
C14_SeedHashPublishedBefore ==
  currentRound.status # "null" =>
    IF seedManager.currentIndex = 0
    THEN sha256(currentRound.serverSeed) = getPublicData(seedManager).publicHash
    ELSE /\ Len(roundHistory) > 0
         /\ sha256(currentRound.serverSeed) = roundHistory[1].serverSeed

\* C15: the outcome of a round cannot be observed before reveal: while the
\* round is pending or betting the snapshot's result is null, no event of the
\* round carries the outcome and the public data do not hold the inputs of
\* the outcome function; once revealing, the snapshot gives id, status,
\* committed hash and outcome.
C15_OutcomeHiddenBeforeReveal ==
  /\ currentRound.status \in {"pending", "betting"} =>
       /\ getCurrentRound(currentRound).result = "null"
       /\ \A i \in 1..Len(events) :
            events[i].roundId = currentRound.id => events[i].result = "none"
       /\ ~ /\ getPublicData(seedManager).publicHash = currentRound.serverSeed
            /\ getPublicData(seedManager).clientSeed = currentRound.clientSeed
            /\ getPublicData(seedManager).nonce = currentRound.nonce
  /\ currentRound.status = "revealing" =>
       LET snapshot == getCurrentRound(currentRound)
       IN /\ snapshot.id = currentRound.id
          /\ snapshot.status = "revealing"
          /\ snapshot.serverSeedHash = currentRound.serverSeedHash
          /\ snapshot.result = currentRound.result

\* C16: the seed chain's nonce never decreases over the life of the process.
C16_NonceMonotonic == [][seedManager'.nonce >= seedManager.nonce]_vars

\* C17: after any sequence of initialize, getCurrentServerSeed and
\* advanceToNextSeed, from the constructor on, currentIndex is within the
\* chain, the remaining count is between 1 and chainLength, and
\* getCurrentServerSeed has returned a defined element of the current chain.
C17_ChainNeverExhausted ==
  /\ seedManager.currentIndex >= 0
  /\ seedManager.currentIndex < ChainLength
  /\ getPublicData(seedManager).gamesRemaining \in 1..ChainLength
  /\ seedProbe.op = "getCurrentServerSeed" =>
       /\ seedProbe.seed # NoSeed
       /\ seedProbe.seed.root = seedManager.root
       /\ seedProbe.seed.depth \in 0..(ChainLength - 1)
       /\ seedProbe.seed = seedChainAt(seedManager, seedManager.currentIndex)

\* getCurrentServerSeed answered after the chain had been exhausted twice.
C17_Witness ==
  /\ seedProbe.op = "getCurrentServerSeed"
  /\ seedManager.chains = 3
  /\ seedManager.currentIndex = 1

\* C18: the chain is regenerated only when no round is in betting or
\* revealing (inside finishRound, the round is finished and archived first).
C18_NoRegenerationInFlight ==
  [][seedManager'.chains # seedManager.chains =>
       \/ currentRound.status \notin {"betting", "revealing"}
       \/ /\ currentRound' = NullRound
          /\ Len(roundHistory') = Len(roundHistory) + 1]_vars

SameRound(a, b) == a.id = b.id /\ a.serverSeed = b.serverSeed

\* C19: the current round's status moves along pending, betting, revealing,
\* finished only: a round enters betting when it is generated, with no round
\* in flight; a betting round goes to revealing; only a revealing round is
\* finished and archived.
C19_StatusOrder ==
  [][\/ currentRound' = currentRound
     \/ currentRound.status = "null" /\ currentRound'.status = "betting"
     \/ /\ SameRound(currentRound, currentRound')
        /\ currentRound.status = "betting"
        /\ currentRound'.status \in {"betting", "revealing"}
     \/ /\ currentRound.status = "revealing"
        /\ currentRound' = NullRound
        /\ Len(roundHistory') > 0
        /\ roundHistory'[1].id = currentRound.id]_vars

\* C20: a reveal asked for while there is no round, or the round is not in
\* betting, is rejected with an error, changes neither the round's status
\* nor its winners and losers, and broadcasts no round_reveal.
C20_RejectedRevealChangesNothing ==
  [][(timers["reveal"] # <<>> /\ timers'["reveal"] = Tail(timers["reveal"]) /\ isRunning
        /\ currentRound.status # "betting")
       => /\ startReveal_error(currentRound) = ErrReveal
          /\ revealErrors' = revealErrors + 1
          /\ currentRound' = currentRound
          /\ events' = events
          /\ timers'["finish"] = timers["finish"]]_vars

\* Reveals were rejected on a revealing round and with no round at all.
C20_Witness ==
  /\ revealErrors > 0
  /\ currentRound.status = "revealing"
  /\ isRunning

\* C21: addBet succeeds only on a round in betting; with no round it fails
\* with 'No active round', on a round not in betting with 'Betting phase has
\* ended', on a choice other than HEADS, TAILS, EDGE with the invalid-choice
\* error; a rejected addBet leaves the round and its ledger as they were.
C21_AddBetRejections ==
  /\ [](engineProbe.op = "addBet" =>
         /\ engineProbe.err = "none" => engineProbe.status = "betting"
         /\ engineProbe.status = "null" => engineProbe.err = ErrNoRound
         /\ engineProbe.status \notin {"null", "betting"} => engineProbe.err = ErrClosed
         /\ (engineProbe.status = "betting" /\ engineProbe.choice \notin Choices)
              => engineProbe.err = ErrChoice)
  /\ [][(engineProbe' # engineProbe /\ engineProbe'.err # "none")
          => currentRound' = currentRound /\ roundHistory' = roundHistory]_vars

\* addBet was rejected for its choice on a round in betting that already
\* holds a bet.
C21_Witness ==
  /\ engineProbe.err = ErrChoice
  /\ currentRound.status = "betting"
  /\ currentRound.bets # <<>>

\* Call c's placeBet runs its synchronous head in this step.
PlaceBetStep(c) == calls[c].pc = "idle" /\ calls'[c].pc # "idle"

\* A debit is dispatched only for a live session, an amount within
\* [MIN_BET, MAX_BET], a valid choice, a player without a bet in the current
\* round, and a round in betting.
DebitOnlyIfValid(c) ==
  calls'[c].pc = "debit" =>
    LET call == calls'[c]
    IN /\ call.sessionId \in DOMAIN sessions
       /\ ~sessions[call.sessionId].expired
       /\ sessions[call.sessionId].playerId = call.playerId
       /\ call.amount >= MIN_BET * 100
       /\ BigCmp(BigFromInt(call.amount), BigMulSmall(MAX_BET, 100, 0)) <= 0
       /\ call.choice \in Choices
       /\ ~MapHas(currentRound.bets, call.playerId)
       /\ currentRound.status = "betting"
       /\ call.roundId = currentRound.id

\* A placeBet that ends in its synchronous head has thrown: nothing was sent.
NothingButSessionsChanged ==
  UNCHANGED <<engineVars, schedulerVars, activeBets, pendingTransactions, now, debits,
              credits, processed, flipVars, logVars>>

\* C22 as stated: a bet failing local validation issues no debit and changes
\* no state at all.
C22_RejectedBetChangesNothing ==
  [][\A c \in CallIds : PlaceBetStep(c) =>
        /\ DebitOnlyIfValid(c)
        /\ NothingButSessionsChanged
        /\ sessions' = sessions]_vars

\* C22: placeBet validates session, amount, choice, existing bet and round
\* before touching the platform: a failing bet issues no debit and changes no
\* state, except that the lookup of an expired session removes that session.
C22_RejectedBetChangesOnlyExpiredSession ==
  [][\A c \in CallIds : PlaceBetStep(c) =>
        /\ DebitOnlyIfValid(c)
        /\ NothingButSessionsChanged
        /\ \/ sessions' = sessions
           \/ /\ calls'[c].err = ErrSession
              /\ \E sessionId \in DOMAIN sessions :
                   /\ sessions[sessionId].expired
                   /\ sessions' = destroySession(sessions, sessionId)]_vars

\* A bet on an expired session was rejected during betting and the session
\* is gone.
C22_Witness ==
  /\ \E c \in CallIds : calls[c].pc = "done" /\ calls[c].err = ErrSession
  /\ DOMAIN sessions # SessionIds
  /\ currentRound.status = "betting"

\* The creditWin calls made for a player in a round.
CreditsOf(roundId, playerId) ==
  {j \in 1..Len(credits) :
     credits[j].roundId = roundId /\ credits[j].playerId = playerId}

\* The placeBet calls whose bet stands in a round's ledger for a player.
BetCallsOf(roundId, playerId) ==
  {c \in CallIds : /\ calls[c].registered
                   /\ calls[c].regRound = roundId
                   /\ calls[c].playerId = playerId}

\* C23: for each winner of a settled round exactly one credit call was made,
\* with the winner's betAmount and winAmount and the transaction id of that
\* player's acknowledged debit; for a loser no credit and no refund was made.
C23_OneCreditPerWinner ==
  \A k \in 1..Len(processed) :
    LET p == processed[k]
    IN /\ \A i \in 1..Len(p.winners) :
            LET w == p.winners[i]
            IN /\ Cardinality(CreditsOf(p.roundId, w.playerId)) = 1
               /\ \A j \in CreditsOf(p.roundId, w.playerId) :
                    /\ credits[j].betAmount = w.betAmount
                    /\ credits[j].winAmount = w.winAmount
                    /\ \E d \in debits :
                         /\ d.txId = credits[j].betTransactionId
                         /\ d.playerId = w.playerId
                         /\ d.amount = w.betAmount
                         /\ d.call \in BetCallsOf(p.roundId, w.playerId)
       /\ \A i \in 1..Len(p.losers) :
            LET l == p.losers[i]
            IN /\ CreditsOf(p.roundId, l.playerId) = {}
               /\ \A c \in BetCallsOf(p.roundId, l.playerId) :
                    /\ calls[c].rollbacks = 0
                    /\ \A j \in 1..Len(credits) :
                         credits[j].betTransactionId # calls[c].txId

\* A round with one winner and one loser is settled; one credit was made.
C23_Witness ==
  /\ \E k \in 1..Len(processed) :
       Len(processed[k].winners) = 1 /\ Len(processed[k].losers) = 1
  /\ Len(credits) = 1

\* C24: the list processRoundResults returns has exactly one entry per
\* winner, in order, with success=false and an error when that winner's
\* credit failed; the winners after a failed credit are still credited, and
\* the next round is scheduled when the list is returned.
C24_FailedCreditReported ==
  /\ [](\A k \in 1..Len(processed) :
         LET p == processed[k]
         IN /\ Len(p.results) = Len(p.winners)
            /\ \A i \in 1..Len(p.winners) :
                 /\ p.results[i].playerId = p.winners[i].playerId
                 /\ \A j \in CreditsOf(p.roundId, p.winners[i].playerId) :
                      /\ p.results[i].success = (credits[j].resp = "OK")
                      /\ ~p.results[i].success => p.results[i].error # "none"
                 /\ CreditsOf(p.roundId, p.winners[i].playerId) # {})
  /\ [][Len(processed') > Len(processed) =>
          Len(timers'["start"]) = Len(timers["start"]) + 1]_vars

\* A round with two winners is settled: the first winner's credit failed and
\* the second winner's succeeded.
C24_Witness ==
  \E k \in 1..Len(processed) :
    /\ Len(processed[k].results) = 2
    /\ ~processed[k].results[1].success
    /\ processed[k].results[2].success

\* The pending settlement records of call c's debit.
PendingOf(c) == {e \in pendingTransactions : e.transactionId = calls[c].txId}

\* Call c's bet is terminal: refunded, or its round is settled and it lost or
\* its win was credited.
BetTerminal(c) ==
  \/ ~calls[c].registered /\ calls[c].refundResp = "OK"
  \/ /\ calls[c].registered
     /\ RoundSettled(calls[c].regRound)
     /\ \/ calls[c].choice # HistoryResult(calls[c].regRound)
        \/ \E i \in 1..Len(credits) :
             credits[i].betTransactionId = calls[c].txId /\ credits[i].resp = "OK"

\* C25: a bet whose debit is acknowledged has exactly one pending
\* settlement record until it is terminal, and none once it is credited as a
\* win, closed as a loss by its round's settlement, or refunded.
C25_OnePendingRecordUntilTerminal ==
  \A c \in CallIds :
    (calls[c].addBetCalled /\ calls[c].resp = "OK") =>
      IF BetTerminal(c) THEN PendingOf(c) = {} ELSE Cardinality(PendingOf(c)) = 1

\* The attempts of the current call so far all failed.
AllAttemptsFailed ==
  \A i \in 1..Len(request.outcomes) : request.outcomes[i] \in AttemptFailures

\* C26: a settlement call makes at most RETRY_ATTEMPTS attempts, waits
\* attempt * RETRY_DELAY_MS before attempt number attempt + 1, tries again
\* only after a failed attempt, and always ends, with a response or with the
\* failure of its last attempt.
C26_BoundedRetries ==
  /\ [](/\ Len(request.outcomes) <= RETRY_ATTEMPTS
        /\ \A i \in 1..Len(request.waits) : request.waits[i] = i * RETRY_DELAY_MS
        /\ request.pc = "fetch" => /\ Len(request.waits) = Len(request.outcomes)
                                   /\ request.attempt = Len(request.outcomes) + 1
        /\ request.pc = "done" => Len(request.waits) = Len(request.outcomes) - 1
        /\ \A i \in 1..(Len(request.outcomes) - 1) :
             request.outcomes[i] \in AttemptFailures
        /\ request.pc = "done" =>
             \/ request.outcomes[Len(request.outcomes)] \in AttemptResponses
             \/ AllAttemptsFailed /\ Len(request.outcomes) = RETRY_ATTEMPTS)
  /\ (request.pc = "fetch" ~> request.pc = "done")

\* A call answered at its third attempt, after waiting 1000 and 2000 ms.
C26_Witness ==
  /\ request.pc = "done"
  /\ request.outcomes = <<"TIMEOUT", "HTTP_ERROR", "OK">>
  /\ request.waits = <<RETRY_DELAY_MS, 2 * RETRY_DELAY_MS>>

\* C27: placeBet, creditWin, rollback and getBalance never throw: when every
\* attempt fails the call returns success=false with the code CALLBACK_FAILED
\* and a message, and the pending settlement records are as they were.
C27_FailureIsReturned ==
  /\ [](request.pc = "done" =>
          /\ request.result.kind = "return"
          /\ AllAttemptsFailed =>
               /\ ~request.result.success
               /\ request.result.code = "CALLBACK_FAILED"
               /\ request.result.message \in AttemptFailures)
  /\ [][(request'.pc # "done" \/ (request.pc = "fetch" /\ ~request'.result.success))
          => pendingTransactions' = pendingTransactions]_vars

\* A rollback of a pending debit failed at every attempt; the record stays.
C27_Witness ==
  /\ request.pc = "done"
  /\ request.op = "rollback"
  /\ request.result.code = "CALLBACK_FAILED"
  /\ \E e \in pendingTransactions : e.transactionId = request.transactionId

IsGameEvent(e) == e.ns = "game"
IsControlsEvent(e) == e.ns = "controls"

\* What a namespace was sent, in order.
NamespaceLog(ns) ==
  IF ns = "game" THEN SelectSeq(events, IsGameEvent) ELSE SelectSeq(events, IsControlsEvent)

EventCycle == <<"betting_phase", "round_reveal", "round_finished">>

\* C28: each namespace receives betting_phase, round_reveal, round_finished
\* in this order, once each per round and with one roundId, both namespaces
\* receive the same; a round's betting_phase comes only after the settlement
\* of the round before has returned and ROUND_DELAY_MS has passed since.
C28_EventOrder ==
  /\ Len(NamespaceLog("game")) = Len(NamespaceLog("controls"))
  /\ \A i \in 1..Len(NamespaceLog("game")) :
       [NamespaceLog("game")[i] EXCEPT !.ns = "controls"] = NamespaceLog("controls")[i]
  /\ LET log == NamespaceLog("controls")
     IN \A i \in 1..Len(log) :
          /\ log[i].event = EventCycle[((i - 1) % 3) + 1]
          /\ (i - 1) % 3 # 0 => log[i].roundId = log[i - 1].roundId
          /\ \A j \in 1..Len(log) :
               (log[j].event = log[i].event /\ log[j].roundId = log[i].roundId) => j = i
          /\ ((i - 1) % 3 = 0 /\ i > 1) =>
               \E k \in 1..Len(processed) :
                 /\ processed[k].roundId = log[i - 1].roundId
                 /\ log[i].roundId.t >= processed[k].time + ROUND_DELAY_MS

\* The second round's betting_phase has been broadcast.
C28_Witness ==
  /\ Len(NamespaceLog("controls")) > 3
  /\ Len(NamespaceLog("game")) > 3
  /\ isRunning

\* C29: for every round, startReveal runs exactly BETTING_PHASE_MS after the
\* round's startBettingPhase, whatever the order of start, stop and timer
\* callbacks.  A round's id carries the time of its generation, which is the
\* time of its startBettingPhase; startTime is the time of its startReveal.
C29_RevealAtDuration ==
  /\ currentRound.status = "revealing" =>
       currentRound.startTime - currentRound.id.t = BETTING_PHASE_MS
  /\ \A k \in 1..Len(roundHistory) :
       roundHistory[k].startTime # NoTime =>
         roundHistory[k].startTime - roundHistory[k].id.t = BETTING_PHASE_MS

\* The rounds finished so far on the engine.
FinishedRounds == IF currentRound.status = "null" THEN rounds ELSE rounds - 1

\* C30: the history holds at most 50 entries, newest first, one per finished
\* round; each finish puts the round's entry first, and once 50 are held it
\* drops the oldest.
C30_HistoryBounded ==
  /\ [](/\ Len(roundHistory) <= HISTORY_LIMIT
        /\ Len(roundHistory) =
             (IF FinishedRounds < HISTORY_LIMIT THEN FinishedRounds ELSE HISTORY_LIMIT)
        /\ getHistory(roundHistory, HISTORY_LIMIT) = roundHistory
        /\ \A k \in 1..(Len(roundHistory) - 1) :
             /\ roundHistory[k].endTime > roundHistory[k + 1].endTime
             /\ roundHistory[k].id # roundHistory[k + 1].id)
  /\ [][(currentRound.status # "null" /\ currentRound' = NullRound) =>
          /\ roundHistory'[1].id = currentRound.id
          /\ roundHistory'[1].endTime = now'
          /\ IF Len(roundHistory) < HISTORY_LIMIT
             THEN Tail(roundHistory') = roundHistory
             ELSE Tail(roundHistory') = SubSeq(roundHistory, 1, HISTORY_LIMIT - 1)]_vars
  /\ [][roundHistory' # roundHistory =>
          (currentRound.status # "null" /\ currentRound' = NullRound)]_vars

\* Two rounds more than the limit have finished: the history holds 50.
C30_Witness ==
  /\ rounds = HISTORY_LIMIT + 2
  /\ currentRound.status = "null"
  /\ Len(roundHistory) = HISTORY_LIMIT

\* The placeBet calls whose bet stands in the ledger of the current round or
\* of a round being settled.
InLedger(c) ==
  \/ \E i \in 1..Len(currentRound.bets) : currentRound.bets[i].call = c
  \/ \E s \in settling : \E i \in 1..Len(s.round.bets) : s.round.bets[i].call = c

\* C35: a refund is issued only for a debit whose bet was not registered:
\* the transaction a rollback names belongs to a call whose bet is in no
\* ledger, was never registered, and is never the subject of a credit.
C35_RefundOnlyForUnregistered ==
  \A c \in CallIds :
    calls[c].rollbacks > 0 =>
      /\ ~calls[c].registered
      /\ ~InLedger(c)
      /\ \A d \in debits :
           d.txId = calls[c].rollback.originalTransactionId =>
             /\ d.call = c
             /\ ~calls[d.call].registered
             /\ ~InLedger(d.call)
             /\ \A e \in activeBets : e.transactionId # d.txId
             /\ \A j \in 1..Len(credits) : credits[j].betTransactionId # d.txId

\* A player's second debit was refunded as a duplicate while the player's
\* first bet stands in the current round's ledger.
C35_Witness ==
  \E c, d \in CallIds :
    /\ c # d
    /\ calls[c].rollbacks = 1
    /\ calls[c].regErr = ErrDuplicate
    /\ calls[d].playerId = calls[c].playerId
    /\ calls[d].registered
    /\ InLedger(d)

\* The pending settlement records other than those of transaction txId.
PendingWithout(txId) == {e \in pendingTransactions : e.transactionId # txId}

\* The placeBet call whose debit is acknowledged in this step.
DebitAcknowledged(c) == /\ \A d \in debits : d.call # c
                        /\ \E d \in debits' : d.call = c

\* The creditWin or rollback completing in this step, and the transaction id
\* passed to it.
CreditCompletes(txId, ok) ==
  /\ Len(credits') = Len(credits) + 1
  /\ credits'[Len(credits')].betTransactionId = txId
  /\ ok = creditWin_success(credits'[Len(credits')].resp)

RefundCompletes(txId, ok) ==
  \E c \in CallIds :
    /\ calls[c].pc = "rollback"
    /\ calls'[c].pc = "done"
    /\ calls[c].rollback.originalTransactionId = txId
    /\ ok = rollback_success(calls'[c].refundResp)

\* C36: a successful debit adds exactly one pending settlement record, with
\* the acknowledged transaction id; a successful credit or refund removes
\* exactly the record of the transaction id passed to it and leaves the
\* others; a failed credit or refund removes nothing.
C36_PendingRecordsExact ==
  [][/\ \A c \in CallIds :
          DebitAcknowledged(c) =>
            /\ Cardinality(pendingTransactions') = Cardinality(pendingTransactions) + 1
            /\ pendingTransactions \subseteq pendingTransactions'
            /\ \A e \in pendingTransactions' \ pendingTransactions :
                 e.transactionId = calls'[c].txId
     /\ \A txId \in CallIds :
          /\ (CreditCompletes(txId, TRUE) \/ RefundCompletes(txId, TRUE)) =>
               /\ pendingTransactions' = PendingWithout(txId)
               /\ Cardinality(pendingTransactions') = Cardinality(pendingTransactions) - 1
          /\ (CreditCompletes(txId, FALSE) \/ RefundCompletes(txId, FALSE)) =>
               pendingTransactions' = pendingTransactions]_vars

\* The rounds whose ledger holds a bet of this player: the current round,
\* the rounds being settled and the rounds settled.
LedgerRoundsOf(playerId) ==
  (IF MapHas(currentRound.bets, playerId) THEN {currentRound.id} ELSE {})
    \cup {s.round.id : s \in {u \in settling : MapHas(u.round.bets, playerId)}}
    \cup {processed[k].roundId :
            k \in {j \in 1..Len(processed) :
                     \/ MapHas(processed[j].winners, playerId)
                     \/ MapHas(processed[j].losers, playerId)}}

\* No placeBet of this player is between its call and its return or throw.
NoBetInFlight(playerId) ==
  \A c \in CallIds : calls[c].playerId = playerId => calls[c].pc \in {"idle", "done"}

\* Acknowledged debits less refund calls equals bets in ledgers.
DebitsBalance(playerId) ==
  Cardinality({d \in debits : d.playerId = playerId})
    - Cardinality({c \in CallIds : calls[c].playerId = playerId /\ calls[c].rollbacks > 0})
    = Cardinality(LedgerRoundsOf(playerId))

\* C38: whenever no placeBet of a player is in flight, the player's
\* acknowledged debits less the refund calls issued equal the player's bets
\* in round ledgers; of the placeBet calls a player makes in one round at
\* most one is accepted.
C38_DebitsMatchLedger ==
  \A playerId \in Players :
    /\ NoBetInFlight(playerId) => DebitsBalance(playerId)
    /\ \A c, d \in CallIds :
         (/\ calls[c].playerId = playerId
          /\ calls[d].playerId = playerId
          /\ calls[c].roundId = calls[d].roundId
          /\ calls[c].success
          /\ calls[d].success) => c = d

\* C39: while the current round is in betting or revealing, a player has an
\* activeBets entry exactly when the player has an entry in the round's
\* ledger; once a round's settlement has completed, activeBets holds no entry
\* of a bet of that round.
C39_ActiveBetsMatchLedger ==
  /\ [](currentRound.status \in {"betting", "revealing"} =>
         \A playerId \in Players :
           ActiveHas(activeBets, playerId) <=> MapHas(currentRound.bets, playerId))
  /\ [](\A k \in 1..Len(processed) :
         \A e \in activeBets : calls[e.call].regRound # processed[k].roundId)
  /\ [][Len(processed') > Len(processed) =>
          \A e \in activeBets' :
            /\ ~MapHas(processed'[Len(processed')].winners, e.playerId)
            /\ ~MapHas(processed'[Len(processed')].losers, e.playerId)]_vars

\* A player who lost the settled first round has a bet in the second.
C39_Witness ==
  /\ currentRound.status = "betting"
  /\ Len(processed) = 1
  /\ \E playerId \in Players :
       /\ MapHas(processed[1].losers, playerId)
       /\ MapHas(currentRound.bets, playerId)
       /\ ActiveHas(activeBets, playerId)

\* The expiry sweep runs in this step: sessions go, and no bet message, timer
\* callback or platform answer is handled.
SweepStep ==
  /\ DOMAIN sessions' # DOMAIN sessions
  /\ calls' = calls
  /\ credits' = credits
  /\ now' = now

\* C34: the expiry sweep deletes exactly the expired sessions, keeps every
\* other session as it was, and leaves the current round with its ledger,
\* activeBets and the pending settlement records unchanged.
C34_SweepDeletesOnlyExpired ==
  [][SweepStep =>
       /\ DOMAIN sessions' = {s \in DOMAIN sessions : ~sessions[s].expired}
       /\ \A s \in DOMAIN sessions' : sessions'[s] = sessions[s]
       /\ UNCHANGED <<currentRound, roundHistory, activeBets, pendingTransactions,
                      settling, timers, debits>>]_vars

\* One of two sessions was swept while the other player's bet stands in the
\* ledger of the round in betting, its settlement record pending.
C34_Witness ==
  /\ DOMAIN sessions = {"s2"}
  /\ \A c \in CallIds : calls[c].sessionId # "s1" /\ calls[c].err # ErrSession
  /\ processed = <<>>
  /\ currentRound.status = "betting"
  /\ MapHas(currentRound.bets, "p2")
  /\ ActiveHas(activeBets, "p2")
  /\ pendingTransactions # {}

\* The n-th round is the current round, with this status.
RoundIs(n, status) == rounds = n /\ currentRound.status = status

\* C37: while the scheduler runs and every credit call returns, each round
\* that enters betting reaches revealing, is finished and settled, and the
\* next round enters betting, whatever the credit calls answered.
C37_RoundLoopNeverStalls ==
  \A n \in 1..MaxRounds :
    /\ (isRunning /\ RoundIs(n, "betting"))
         ~> (~isRunning \/ RoundIs(n, "revealing"))
    /\ (isRunning /\ RoundIs(n, "revealing"))
         ~> (~isRunning \/ (Len(processed) = n /\ RoundIs(n, "null")))
    /\ (isRunning /\ Len(processed) = n /\ RoundIs(n, "null") /\ n < MaxRounds)
         ~> (~isRunning \/ RoundIs(n + 1, "betting"))

\* The second round is in betting after a settlement in which a credit
\* failed.
C37_Witness ==
  /\ isRunning
  /\ RoundIs(2, "betting")
  /\ Len(processed) = 1
  /\ \E i \in 1..Len(processed[1].results) : ~processed[1].results[i].success


\* Call c's debit was answered with status ERROR and nothing came of it: no
\* reported success, no ledger entry, no pending settlement record.
DebitErrorRejected(c) ==
  (calls[c].pc \in {"rollback", "done"} /\ ResponseStatus(calls[c].resp) = "ERROR") =>
    /\ ~calls[c].success
    /\ ~calls[c].registered
    /\ \A d \in debits : d.call # c
    /\ \A e \in pendingTransactions : e.transactionId # PlatformTransactionId(c)

\* A credit answered with status ERROR is reported as failed and settles no
\* pending record.
CreditErrorRejected ==
  (Len(credits') = Len(credits) + 1
     /\ ResponseStatus(credits'[Len(credits')].resp) = "ERROR") =>
    /\ pendingTransactions' = pendingTransactions
    /\ \A k \in 1..Len(processed') :
         k > Len(processed) => \A i \in 1..Len(processed'[k].results) :
           processed'[k].results[i].playerId = credits'[Len(credits')].playerId
             => ~processed'[k].results[i].success

\* A refund answered with status ERROR settles no pending record.
RefundErrorRejected ==
  \A c \in CallIds :
    (calls[c].pc = "rollback" /\ calls'[c].pc = "done"
       /\ ResponseStatus(calls'[c].refundResp) = "ERROR") =>
      pendingTransactions' = pendingTransactions

\* C40: a platform response with status ERROR never results in a ledger
\* entry, a pending settlement record or a reported success, for debit, credit
\* and refund alike.
C40_SuccessOnlyWhenStatusOK ==
  /\ [](\A c \in CallIds : DebitErrorRejected(c))
  /\ [][CreditErrorRejected]_vars
  /\ [][RefundErrorRejected]_vars


\* The ids of the sessions of one player in the session map.
SessionsOf(dir, playerId) ==
  {t \in DOMAIN dir.sessions : dir.sessions[t].playerId = playerId}

\* The session map holds at most one session per player and the player
\* index is its inverse.
OneSessionPerPlayer(dir) ==
  /\ \A p \in Players : Cardinality(SessionsOf(dir, p)) <= 1
  /\ \A p \in DOMAIN dir.playerSessions :
       /\ dir.playerSessions[p] \in DOMAIN dir.sessions
       /\ dir.sessions[dir.playerSessions[p]].playerId = p
  /\ \A t \in DOMAIN dir.sessions :
       /\ dir.sessions[t].playerId \in DOMAIN dir.playerSessions
       /\ dir.playerSessions[dir.sessions[t].playerId] = t

\* createSession ran: the player's index entry is the new session, and the
\* session the player had before resolves no more.
CreateReplacesPrior ==
  directory'.created = directory.created + 1 =>
    LET sessionId == directory'.created
        playerId == directory'.sessions[sessionId].playerId
    IN /\ directory'.playerSessions[playerId] = sessionId
       /\ playerId \in DOMAIN directory.playerSessions =>
            LET prior == directory.playerSessions[playerId]
            IN /\ prior # sessionId
               /\ prior \notin DOMAIN directory'.sessions
               /\ SessionService_getSession(directory', prior, now').session = NoSession

\* C31: there is at most one live session per player; after createSession for
\* a player who has a session, the prior session id resolves no more and the
\* player index points to the new session.
C31_OneLiveSessionPerPlayer ==
  /\ [](OneSessionPerPlayer(directory))
  /\ [][CreateReplacesPrior]_vars

\* A socket was opened on a player's first session, the player got a second
\* session, and a lookup of the first one then returned null.
C31_Witness ==
  /\ directory.created = 2
  /\ DOMAIN directory.sessions = {2}
  /\ sessionProbe.sessionId = 1
  /\ sessionProbe.session = NoSession
  /\ \E k \in SocketIds :
       /\ sockets[k].state = "open"
       /\ sockets[k].sessionId = 1
       /\ sockets[k].playerId = directory.sessions[2].playerId
  /\ now < EXPIRY_MS

\* A step that called getSession.
LookupStep == sessionProbe'.n = sessionProbe.n + 1

\* What getSession did on the step: a session past its expiresAt is reported
\* as null and is gone from both maps, a session at or before its expiresAt
\* is returned as it was and stays in both maps, an unknown id gives null.
LookupByExpiry ==
  LookupStep =>
    LET sessionId == sessionProbe'.sessionId
    IN IF sessionId \notin DOMAIN directory.sessions
       THEN sessionProbe'.session = NoSession /\ directory' = directory
       ELSE LET session == directory.sessions[sessionId]
            IN IF now' > session.expiresAt
               THEN /\ sessionProbe'.session = NoSession
                    /\ sessionId \notin DOMAIN directory'.sessions
                    /\ session.playerId \notin DOMAIN directory'.playerSessions
               ELSE /\ sessionProbe'.session = session
                    /\ sessionId \in DOMAIN directory'.sessions
                    /\ directory'.sessions[sessionId].playerId = session.playerId
                    /\ directory'.sessions[sessionId].createdAt = session.createdAt
                    /\ directory'.sessions[sessionId].expiresAt = session.expiresAt
                    /\ directory'.playerSessions = directory.playerSessions

\* C32: getSession later than the session's expiresAt reports it as not found
\* and removes it from the session map and the player index; at or before
\* expiresAt it returns the session unchanged.
C32_ExpiredSessionRemovedOnLookup == [][LookupByExpiry]_vars

\* The one session was found by a connection, and one millisecond past its
\* expiresAt a second lookup returned null and emptied the directory, before
\* any cleanup ran.
C32_Witness ==
  /\ directory.created = 1
  /\ directory.sweeps = 0
  /\ directory.sessions = NewDirectory.sessions
  /\ directory.playerSessions = NewDirectory.playerSessions
  /\ sessionProbe.n = 2
  /\ sessionProbe.sessionId = 1
  /\ sessionProbe.session = NoSession
  /\ now = EXPIRY_MS + 1
  /\ \E k \in SocketIds : sockets[k].sessionId = 1 /\ sockets[k].state = "open"

\* A lookup for a connection attempt or a bet request returned null, and the
\* socket it came on is disconnected.
FailedLookupDisconnects ==
  (LookupStep /\ sessionProbe'.session = NoSession) =>
    \E k \in SocketIds :
      /\ sockets'[k].sessionId = sessionProbe'.sessionId
      /\ sockets'[k].state = "disconnected"
      /\ \/ sockets[k].state = "none"
         \/ sockets[k].state = "open" /\ sockets'[k].emitted = ErrSession

\* C33: whenever a connection attempt or a bet request arrives on a socket
\* whose session id resolves to no live session, that socket is disconnected.
C33_SessionErrorDisconnects == [][FailedLookupDisconnects]_vars

====
